---- MODULE Spec2Model ----
(***************************************************************************)
(* Transaction core of the bsv python sdk (src/bsv/transaction.py) and the *)
(* binary helpers it uses, as a state machine over one Transaction object. *)
(*                                                                         *)
(* Byte strings are sequences of octets.  A concrete octet n is the record *)
(* [b |-> n]; the output of a cryptographic primitive (hash256, a public   *)
(* key, a DER signature, the hash inside an address) is a run of opaque    *)
(* octets whose first element names the primitive and its argument, so     *)
(* that the primitive is injective (collision-free) and never equals a     *)
(* run of concrete octets.  Python ints are unbounded; the fields of a      *)
(* transaction stay below 2^31 here, and the integers of the binary and    *)
(* signature codecs are sequences of base-256 digits.                      *)
(***************************************************************************)
EXTENDS Integers, Sequences, FiniteSets, TLC

VARIABLES tx, op, arg, ret, raised, budget, opaque_estimate

vars == <<tx, op, arg, ret, raised, budget, opaque_estimate>>

-----------------------------------------------------------------------------
(* Bounds of the model.                                                    *)

MaxInputs == 2
MaxOutputs == 2
MaxMutations == 1

-----------------------------------------------------------------------------
(* Octets and fixed-width integers.                                        *)

Lit(n) == [b |-> n]

Bytes(ns) == [k \in 1..Len(ns) |-> Lit(ns[k])]

Zeros(n) == [k \in 1..n |-> Lit(0)]

Opaque(head, n) == [k \in 1..n |-> IF k = 1 THEN head ELSE [fill |-> k]]

Reverse(s) == [k \in 1..Len(s) |-> s[Len(s) + 1 - k]]

Min(a, b) == IF a <= b THEN a ELSE b

RECURSIVE Concat(_)
Concat(ss) == IF ss = <<>> THEN <<>> ELSE Head(ss) \o Concat(Tail(ss))

RECURSIVE int_to_bytes(_, _)
int_to_bytes(n, byte_length) ==
    IF byte_length = 0 THEN <<>>
    ELSE <<Lit(n % 256)>> \o int_to_bytes(n \div 256, byte_length - 1)

\* A python int that may exceed what a TLC integer holds (a 64-bit varint, a
\* 256-bit signature component) is the sequence of its base-256 digits, least
\* significant first and without leading zero digit: 0 is <<>>.
RECURSIVE Digits(_)
Digits(n) == IF n = 0 THEN <<>> ELSE <<n % 256>> \o Digits(n \div 256)

RECURSIVE Small(_)
Small(num) == IF num = <<>> THEN 0 ELSE Head(num) + 256 * Small(Tail(num))

RECURSIVE Normalize(_)
Normalize(digits) ==
    IF digits = <<>> THEN <<>>
    ELSE IF digits[Len(digits)] = 0 THEN Normalize(SubSeq(digits, 1, Len(digits) - 1))
    ELSE digits

RECURSIVE LessEqFrom(_, _, _)
LessEqFrom(a, b, k) ==
    IF k = 0 THEN TRUE
    ELSE IF a[k] # b[k] THEN a[k] < b[k]
    ELSE LessEqFrom(a, b, k - 1)

\* a <= b
LessEq(a, b) == IF Len(a) # Len(b) THEN Len(a) < Len(b) ELSE LessEqFrom(a, b, Len(a))

\* num.to_bytes(byte_length, 'little') raises OverflowError when num needs more
num_to_bytes_raises(num, byte_length) == Len(num) > byte_length

num_to_bytes(num, byte_length) ==
    [k \in 1..byte_length |-> Lit(IF k <= Len(num) THEN num[k] ELSE 0)]

\* int.from_bytes(octets, 'little')
int_from_bytes(octets) == Normalize([k \in 1..Len(octets) |-> octets[k].b])

bytes_fromhex(h) == [k \in 1..(Len(h) \div 2) |-> Lit(16 * h[2 * k - 1] + h[2 * k])]

\* the two hex digits of an octet: numbers for a concrete octet, and for an
\* opaque octet two opaque digits that name it
hex_high(octet) == IF "b" \in DOMAIN octet THEN octet.b \div 16 ELSE [high |-> octet]

hex_low(octet) == IF "b" \in DOMAIN octet THEN octet.b % 16 ELSE [low |-> octet]

\* a hex writer that puts the low nibble first
bytes_hex_low_nibble_first(octets) ==
    [k \in 1..(2 * Len(octets)) |->
        IF k % 2 = 1 THEN hex_low(octets[(k + 1) \div 2])
                     ELSE hex_high(octets[k \div 2])]

bytes_hex(octets) ==
    [k \in 1..(2 * Len(octets)) |->
        IF k % 2 = 1 THEN hex_high(octets[(k + 1) \div 2])
                     ELSE hex_low(octets[k \div 2])]

U8VarintMax == <<252>>
U16Max == <<255, 255>>
U32Max == <<255, 255, 255, 255>>
U64Max == <<255, 255, 255, 255, 255, 255, 255, 255>>

\* OverflowError; a negative num has no digits here
unsigned_to_varint_raises(num) == ~LessEq(num, U64Max)

\* a writer that takes the four-octet form up to 0xffff
unsigned_to_varint_short_form_late(num) ==
    IF LessEq(num, U8VarintMax) THEN num_to_bytes(num, 1)
    ELSE IF LessEq(num, <<254, 255>>) THEN <<Lit(253)>> \o num_to_bytes(num, 2)
    ELSE IF LessEq(num, U32Max) THEN <<Lit(254)>> \o num_to_bytes(num, 4)
    ELSE <<Lit(255)>> \o num_to_bytes(num, 8)

unsigned_to_varint(num) ==
    IF LessEq(num, U8VarintMax) THEN num_to_bytes(num, 1)
    ELSE IF LessEq(num, U16Max) THEN <<Lit(253)>> \o num_to_bytes(num, 2)
    ELSE IF LessEq(num, U32Max) THEN <<Lit(254)>> \o num_to_bytes(num, 4)
    ELSE <<Lit(255)>> \o num_to_bytes(num, 8)

hash256(data) == Opaque([hash256 |-> data], 32)

-----------------------------------------------------------------------------
(* Script, script types, keys and sighash constants.                       *)

SIGHASH_ALL == 1
SIGHASH_NONE == 2
SIGHASH_SINGLE == 3
SIGHASH_FORKID == 64
SIGHASH_ANYONECANPAY == 128

ALL_FORKID == SIGHASH_ALL + SIGHASH_FORKID
NONE_FORKID == SIGHASH_NONE + SIGHASH_FORKID
SINGLE_FORKID == SIGHASH_SINGLE + SIGHASH_FORKID
ALL_ANYONECANPAY_FORKID == ALL_FORKID + SIGHASH_ANYONECANPAY
NONE_ANYONECANPAY_FORKID == NONE_FORKID + SIGHASH_ANYONECANPAY
SINGLE_ANYONECANPAY_FORKID == SINGLE_FORKID + SIGHASH_ANYONECANPAY

SighashValues ==
    {ALL_FORKID, NONE_FORKID, SINGLE_FORKID,
     ALL_ANYONECANPAY_FORKID, NONE_ANYONECANPAY_FORKID, SINGLE_ANYONECANPAY_FORKID}

\* sighash & SIGHASH.ANYONECANPAY, as a truth value
HasAnyoneCanPay(sighash) == (sighash \div SIGHASH_ANYONECANPAY) % 2 = 1

\* sighash & 0x1f
BaseType(sighash) == sighash % 32

NoScript == [none |-> TRUE, script |-> <<>>]

Script(octets) == [none |-> FALSE, script |-> octets]

Script_byte_length(s) == Len(s.script)

Script_byte_length_varint(s) == unsigned_to_varint(Digits(Script_byte_length(s)))

Script_serialize(s) == s.script

\* The three script-type variants; P2PKH.locking(address), P2PKH.unlocking and
\* estimated_unlocking_byte_length are the script capability of the sdk.
P2PKH == "P2PKH"
Unknown == "Unknown"

OP_DUP == 118
OP_HASH160 == 169
OP_EQUALVERIFY == 136
OP_CHECKSIG == 172

PublicKeyHashLen == 20
PublicKeyLen == 33
DerSignatureLen == 71
P2PKHUnlockingLen == 107

address_to_public_key_hash(address) == Opaque([pkh |-> address], PublicKeyHashLen)

P2PKH_locking(address) ==
    Script(Bytes(<<OP_DUP, OP_HASH160, PublicKeyHashLen>>)
           \o address_to_public_key_hash(address)
           \o Bytes(<<OP_EQUALVERIFY, OP_CHECKSIG>>))

PrivateKey_public_key(key) == Opaque([pubkey |-> key], PublicKeyLen)

\* private_key.sign(message): a DER signature by key over hash256(message)
PrivateKey_sign(key, message) ==
    Opaque([sig |-> <<key, hash256(message)>>], DerSignatureLen)

\* encode_pushdata for data of 1..0x4b octets: a raw length octet, then the data
push(data) == <<Lit(Len(data))>> \o data

\* raises when there is no key to sign with
P2PKH_unlocking_raises(private_keys) == private_keys = <<>>

P2PKH_unlocking(signatures, private_keys, sighash) ==
    Script(push(signatures[1] \o int_to_bytes(sighash, 1))
           \o push(PrivateKey_public_key(private_keys[1])))

\* script_type.unlocking(**payload) raises for the variants that cannot sign
unlocking_raises(script_type, private_keys) ==
    IF script_type = P2PKH THEN P2PKH_unlocking_raises(private_keys) ELSE TRUE

\* P2PKH estimates from its first key; the other variants "return 0 or fail",
\* which of the two is held in opaque_estimate
estimated_unlocking_byte_length_raises(script_type, private_keys) ==
    IF script_type = P2PKH THEN private_keys = <<>> ELSE opaque_estimate = "raise"

estimated_unlocking_byte_length(script_type, private_keys) ==
    IF script_type = P2PKH THEN P2PKHUnlockingLen ELSE 0

-----------------------------------------------------------------------------
(* TxInput, TxOutput, Transaction: construction and serialization.         *)

\* 0xffffffff in the source; 2^31 - 1 is the largest value a TLC integer holds
SEQUENCE == 2147483647
VERSION == 1
LOCKTIME == 0
FEE_RATE == [num |-> 1, den |-> 2]

TxidLen == 32

Unspent(txid, vout, value, private_keys, script_type, locking_script) ==
    [txid |-> txid, vout |-> vout, value |-> value, private_keys |-> private_keys,
     script_type |-> script_type, locking_script |-> locking_script]

TxInput(unspent, unlocking_script, sequence, sighash) ==
    [txid |-> unspent.txid,
     vout |-> unspent.vout,
     value |-> unspent.value,
     private_keys |-> unspent.private_keys,
     script_type |-> unspent.script_type,
     locking_script |-> unspent.locking_script,
     unlocking_script |-> unlocking_script,
     sequence |-> sequence,
     sighash |-> sighash]

\* the outpoint as serialized: reversed txid, then vout
OutpointOf(tx_input) == Reverse(bytes_fromhex(tx_input.txid)) \o int_to_bytes(tx_input.vout, 4)

TxInput_serialize(tx_input) ==
    Reverse(bytes_fromhex(tx_input.txid))
    \o int_to_bytes(tx_input.vout, 4)
    \o (IF tx_input.unlocking_script.none THEN <<Lit(0)>>
        ELSE Script_byte_length_varint(tx_input.unlocking_script))
    \o (IF tx_input.unlocking_script.none THEN <<>>
        ELSE Script_serialize(tx_input.unlocking_script))
    \o int_to_bytes(tx_input.sequence, 4)

TxOutput(locking_script, value, script_type) ==
    [value |-> value, locking_script |-> locking_script, script_type |-> script_type]

TxOutput_from_address(address, value) == TxOutput(P2PKH_locking(address), value, P2PKH)

TxOutput_serialize(out) ==
    int_to_bytes(out.value, 8)
    \o Script_byte_length_varint(out.locking_script)
    \o Script_serialize(out.locking_script)

Transaction(tx_inputs, tx_outputs, version, locktime, fee_rate) ==
    [inputs |-> tx_inputs, outputs |-> tx_outputs, version |-> version,
     locktime |-> locktime, fee_rate |-> fee_rate]

Transaction_serialize(t) ==
    int_to_bytes(t.version, 4)
    \o unsigned_to_varint(Digits(Len(t.inputs)))
    \o Concat([k \in 1..Len(t.inputs) |-> TxInput_serialize(t.inputs[k])])
    \o unsigned_to_varint(Digits(Len(t.outputs)))
    \o Concat([k \in 1..Len(t.outputs) |-> TxOutput_serialize(t.outputs[k])])
    \o int_to_bytes(t.locktime, 4)

\* a txid that prints the hash in hashing order
Transaction_txid_unreversed(t) == bytes_hex(hash256(Transaction_serialize(t)))

Transaction_txid(t) == bytes_hex(Reverse(hash256(Transaction_serialize(t))))

-----------------------------------------------------------------------------
(* The per-input sighash preimage.  Inputs and outputs are indexed from 1  *)
(* here, so python's index i is i + 1.                                     *)

\* a preimage that writes the sequence before the value
Transaction__digest_fields_swapped(t, tx_input, hash_prevouts, hash_sequence, hash_outputs) ==
    int_to_bytes(t.version, 4)
    \o hash_prevouts
    \o hash_sequence
    \o Reverse(bytes_fromhex(tx_input.txid))
    \o int_to_bytes(tx_input.vout, 4)
    \o Script_byte_length_varint(tx_input.locking_script)
    \o Script_serialize(tx_input.locking_script)
    \o int_to_bytes(tx_input.sequence, 4)
    \o int_to_bytes(tx_input.value, 8)
    \o hash_outputs
    \o int_to_bytes(t.locktime, 4)
    \o int_to_bytes(tx_input.sighash, 4)

Transaction__digest(t, tx_input, hash_prevouts, hash_sequence, hash_outputs) ==
    int_to_bytes(t.version, 4)
    \o hash_prevouts
    \o hash_sequence
    \o Reverse(bytes_fromhex(tx_input.txid))
    \o int_to_bytes(tx_input.vout, 4)
    \o Script_byte_length_varint(tx_input.locking_script)
    \o Script_serialize(tx_input.locking_script)
    \o int_to_bytes(tx_input.value, 8)
    \o int_to_bytes(tx_input.sequence, 4)
    \o hash_outputs
    \o int_to_bytes(t.locktime, 4)
    \o int_to_bytes(tx_input.sighash, 4)

\* a prevouts hash that leaves the output indexes out
digests_hash_prevouts_without_vout(t) ==
    hash256(Concat([k \in 1..Len(t.inputs) |-> Reverse(bytes_fromhex(t.inputs[k].txid))]))

digests_hash_prevouts(t) ==
    hash256(Concat([k \in 1..Len(t.inputs) |->
        Reverse(bytes_fromhex(t.inputs[k].txid)) \o int_to_bytes(t.inputs[k].vout, 4)]))

digests_hash_sequence(t) ==
    hash256(Concat([k \in 1..Len(t.inputs) |-> int_to_bytes(t.inputs[k].sequence, 4)]))

digests_hash_outputs(t) ==
    hash256(Concat([k \in 1..Len(t.outputs) |-> TxOutput_serialize(t.outputs[k])]))

\* hash_prevouts chosen without looking at ANYONECANPAY
hash_prevouts_of_ignoring_anyonecanpay(t, i) == digests_hash_prevouts(t)

hash_prevouts_of(t, i) ==
    IF ~HasAnyoneCanPay(t.inputs[i].sighash)
    THEN digests_hash_prevouts(t)
    ELSE Zeros(32)

\* hash_sequence chosen on ANYONECANPAY alone
hash_sequence_of_ignoring_base_type(t, i) ==
    IF ~HasAnyoneCanPay(t.inputs[i].sighash)
    THEN digests_hash_sequence(t)
    ELSE Zeros(32)

hash_sequence_of(t, i) ==
    IF  /\ ~HasAnyoneCanPay(t.inputs[i].sighash)
        /\ BaseType(t.inputs[i].sighash) # SIGHASH_SINGLE
        /\ BaseType(t.inputs[i].sighash) # SIGHASH_NONE
    THEN digests_hash_sequence(t)
    ELSE Zeros(32)

\* hash_outputs that treats NONE like ALL
hash_outputs_of_none_as_all(t, i) ==
    IF BaseType(t.inputs[i].sighash) # SIGHASH_SINGLE
    THEN digests_hash_outputs(t)
    ELSE IF BaseType(t.inputs[i].sighash) = SIGHASH_SINGLE /\ i - 1 < Len(t.outputs)
    THEN hash256(TxOutput_serialize(t.outputs[i]))
    ELSE Zeros(32)

hash_outputs_of(t, i) ==
    IF  /\ BaseType(t.inputs[i].sighash) # SIGHASH_SINGLE
        /\ BaseType(t.inputs[i].sighash) # SIGHASH_NONE
    THEN digests_hash_outputs(t)
    ELSE IF BaseType(t.inputs[i].sighash) = SIGHASH_SINGLE /\ i - 1 < Len(t.outputs)
    THEN hash256(TxOutput_serialize(t.outputs[i]))
    ELSE Zeros(32)

Transaction_digests(t) ==
    [i \in 1..Len(t.inputs) |->
        Transaction__digest(t, t.inputs[i], hash_prevouts_of(t, i),
                            hash_sequence_of(t, i), hash_outputs_of(t, i))]

\* digest(index) asserts 0 <= index < len(inputs)
Transaction_digest_raises(t, index) == ~(0 <= index /\ index < Len(t.inputs))

Transaction_digest(t, index) == Transaction_digests(t)[index + 1]

-----------------------------------------------------------------------------
(* TransactionBytesIO and the from_hex parsers.  A stream is the buffer    *)
(* and the read position; a read returns [ok, val, stream], ok = FALSE     *)
(* standing for a raised exception.                                        *)

TransactionBytesIO(octets) == [buf |-> octets, pos |-> 0]

Fail(stream) == [ok |-> FALSE, val |-> <<>>, stream |-> stream]

read_bytes(stream, byte_length) ==
    LET upto == Min(stream.pos + byte_length, Len(stream.buf))
    IN  [ok |-> TRUE,
         val |-> SubSeq(stream.buf, stream.pos + 1, upto),
         stream |-> [stream EXCEPT !.pos = upto]]

\* Body applied to the value of an expression computed once: the statement
\* "v = value" followed by the rest of the function body
Eval(value, Body(_)) == CHOOSE result \in { Body(v) : v \in {value} } : TRUE

read_int(stream, byte_length) ==
    Eval(read_bytes(stream, byte_length), LAMBDA r :
        IF r.val = <<>> THEN Fail(r.stream)
        ELSE [r EXCEPT !.val = int_from_bytes(r.val)])

\* read_varint refusing a marked form whose value fits a shorter one
read_varint_rejecting_overlong(stream) ==
    Eval(read_bytes(stream, 1), LAMBDA r :
        IF r.val = <<>> THEN Fail(r.stream)
        ELSE IF r.val[1].b <= 252 THEN [r EXCEPT !.val = Digits(r.val[1].b)]
        ELSE Eval(read_int(r.stream, IF r.val[1].b = 253 THEN 2
                                     ELSE IF r.val[1].b = 254 THEN 4 ELSE 8),
                  LAMBDA n :
                    IF ~n.ok THEN n
                    ELSE IF r.val[1].b = 253 /\ LessEq(n.val, <<252>>) THEN Fail(n.stream)
                    ELSE IF r.val[1].b = 254 /\ Len(n.val) <= 2 THEN Fail(n.stream)
                    ELSE IF r.val[1].b = 255 /\ Len(n.val) <= 4 THEN Fail(n.stream)
                    ELSE n))

read_varint(stream) ==
    Eval(read_bytes(stream, 1), LAMBDA r :
        IF r.val = <<>> THEN Fail(r.stream)
        ELSE IF r.val[1].b <= 252 THEN [r EXCEPT !.val = Digits(r.val[1].b)]
        ELSE IF r.val[1].b = 253 THEN read_int(r.stream, 2)
        ELSE IF r.val[1].b = 254 THEN read_int(r.stream, 4)
        ELSE read_int(r.stream, 8))

\* TxInput.from_hex leaving the sequence it read aside
TxInput_from_hex_default_sequence(stream) ==
    Eval(read_bytes(stream, 32), LAMBDA txid :
    IF Len(txid.val) # 32 THEN Fail(txid.stream) ELSE
    Eval(read_int(txid.stream, 4), LAMBDA vout :
    IF ~vout.ok THEN Fail(vout.stream) ELSE
    Eval(read_varint(vout.stream), LAMBDA script_length :
    IF ~script_length.ok THEN Fail(script_length.stream) ELSE
    Eval(read_bytes(script_length.stream, Small(script_length.val)), LAMBDA unlocking_script_bytes :
    Eval(read_int(unlocking_script_bytes.stream, 4), LAMBDA sequence :
    IF ~sequence.ok THEN Fail(sequence.stream) ELSE
    [ok |-> TRUE,
     val |-> TxInput(Unspent(bytes_hex(Reverse(txid.val)), Small(vout.val), 0,
                             <<>>, Unknown, Script(<<>>)),
                     Script(unlocking_script_bytes.val), SEQUENCE, ALL_FORKID),
     stream |-> sequence.stream])))))

\* Unspent(txid=..., vout=..., value=0, locking_script=Script()): no keys
TxInput_from_hex(stream) ==
    Eval(read_bytes(stream, 32), LAMBDA txid :
    IF Len(txid.val) # 32 THEN Fail(txid.stream) ELSE
    Eval(read_int(txid.stream, 4), LAMBDA vout :
    IF ~vout.ok THEN Fail(vout.stream) ELSE
    Eval(read_varint(vout.stream), LAMBDA script_length :
    IF ~script_length.ok THEN Fail(script_length.stream) ELSE
    Eval(read_bytes(script_length.stream, Small(script_length.val)), LAMBDA unlocking_script_bytes :
    Eval(read_int(unlocking_script_bytes.stream, 4), LAMBDA sequence :
    IF ~sequence.ok THEN Fail(sequence.stream) ELSE
    [ok |-> TRUE,
     val |-> TxInput(Unspent(bytes_hex(Reverse(txid.val)), Small(vout.val), 0,
                             <<>>, Unknown, Script(<<>>)),
                     Script(unlocking_script_bytes.val), Small(sequence.val), ALL_FORKID),
     stream |-> sequence.stream])))))

TxOutput_from_hex(stream) ==
    Eval(read_int(stream, 8), LAMBDA value :
    IF ~value.ok THEN Fail(value.stream) ELSE
    Eval(read_varint(value.stream), LAMBDA script_length :
    IF ~script_length.ok THEN Fail(script_length.stream) ELSE
    Eval(read_bytes(script_length.stream, Small(script_length.val)), LAMBDA locking_script_bytes :
    [ok |-> TRUE,
     val |-> TxOutput(Script(locking_script_bytes.val), Small(value.val), Unknown),
     stream |-> locking_script_bytes.stream])))

\* for _ in range(inputs_count): _input = TxInput.from_hex(stream); assert; append
RECURSIVE read_inputs(_, _, _)
read_inputs(stream, count, acc) ==
    IF count = 0 THEN [ok |-> TRUE, val |-> acc, stream |-> stream]
    ELSE Eval(TxInput_from_hex(stream), LAMBDA r :
             IF ~r.ok THEN Fail(r.stream)
             ELSE read_inputs(r.stream, count - 1, Append(acc, r.val)))

\* for _ in range(outputs_count): _output = TxOutput.from_hex(stream); assert; append
RECURSIVE read_outputs(_, _, _)
read_outputs(stream, count, acc) ==
    IF count = 0 THEN [ok |-> TRUE, val |-> acc, stream |-> stream]
    ELSE Eval(TxOutput_from_hex(stream), LAMBDA r :
             IF ~r.ok THEN Fail(r.stream)
             ELSE read_outputs(r.stream, count - 1, Append(acc, r.val)))

None == [none |-> TRUE, tx |-> Transaction(<<>>, <<>>, VERSION, LOCKTIME, FEE_RATE)]

Some(t) == [none |-> FALSE, tx |-> t]

\* the whole body runs under suppress(Exception): any failure returns None
Transaction_from_hex(octets) ==
    Eval(read_int(TransactionBytesIO(octets), 4), LAMBDA version :
    IF ~version.ok THEN None ELSE
    Eval(read_varint(version.stream), LAMBDA inputs_count :
    IF ~inputs_count.ok THEN None ELSE
    Eval(read_inputs(inputs_count.stream, Small(inputs_count.val), <<>>), LAMBDA inputs :
    IF ~inputs.ok THEN None ELSE
    Eval(read_varint(inputs.stream), LAMBDA outputs_count :
    IF ~outputs_count.ok THEN None ELSE
    Eval(read_outputs(outputs_count.stream, Small(outputs_count.val), <<>>), LAMBDA outputs :
    IF ~outputs.ok THEN None ELSE
    Eval(read_int(outputs.stream, 4), LAMBDA locktime :
    IF ~locktime.ok THEN None ELSE
    Some(Transaction(inputs.val, outputs.val, Small(version.val), Small(locktime.val),
                     FEE_RATE))))))))

-----------------------------------------------------------------------------
(* Signing, fee and size estimation, change insertion.  An operation that  *)
(* can raise returns [tx, raised]: the transaction as the exception left   *)
(* it and the exception's name ("" when it returned).                      *)

\* a signing loop that signs every input whatever bypass says
RECURSIVE sign_from_ignoring_bypass(_, _, _, _)
sign_from_ignoring_bypass(t, digests, i, bypass) ==
    IF i > Len(t.inputs) THEN [tx |-> t, raised |-> ""]
    ELSE LET tx_input == t.inputs[i]
         IN  IF unlocking_raises(tx_input.script_type, tx_input.private_keys)
             THEN [tx |-> t, raised |-> "ValueError"]
             ELSE LET signatures ==
                          [k \in 1..Len(tx_input.private_keys) |->
                              PrivateKey_sign(tx_input.private_keys[k], digests[i])]
                      unlocking == P2PKH_unlocking(signatures, tx_input.private_keys,
                                                   tx_input.sighash)
                  IN  sign_from_ignoring_bypass(
                          [t EXCEPT !.inputs[i].unlocking_script = unlocking],
                          digests, i + 1, bypass)

RECURSIVE sign_from(_, _, _, _)
sign_from(t, digests, i, bypass) ==
    IF i > Len(t.inputs) THEN [tx |-> t, raised |-> ""]
    ELSE LET tx_input == t.inputs[i]
         IN  IF tx_input.unlocking_script.none \/ ~bypass
             THEN IF unlocking_raises(tx_input.script_type, tx_input.private_keys)
                  THEN [tx |-> t, raised |-> "ValueError"]
                  ELSE LET signatures ==
                               [k \in 1..Len(tx_input.private_keys) |->
                                   PrivateKey_sign(tx_input.private_keys[k], digests[i])]
                           unlocking == P2PKH_unlocking(signatures, tx_input.private_keys,
                                                        tx_input.sighash)
                       IN  sign_from([t EXCEPT !.inputs[i].unlocking_script = unlocking],
                                     digests, i + 1, bypass)
             ELSE sign_from(t, digests, i + 1, bypass)

\* sign() that signs every input again whatever bypass says
Transaction_sign_forced(t, bypass) == sign_from(t, Transaction_digests(t), 1, FALSE)

Transaction_sign(t, bypass) == sign_from(t, Transaction_digests(t), 1, bypass)

RECURSIVE Sum(_)
Sum(ns) == IF ns = <<>> THEN 0 ELSE Head(ns) + Sum(Tail(ns))

total_value_in(t) == Sum([k \in 1..Len(t.inputs) |-> t.inputs[k].value])

total_value_out(t) == Sum([k \in 1..Len(t.outputs) |-> t.outputs[k].value])

\* a fee that counts the inputs only
fee_of_inputs_alone(t) == total_value_in(t)

fee(t) == total_value_in(t) - total_value_out(t)

byte_length(t) == Len(Transaction_serialize(t))

estimated_byte_length_raises(t) ==
    \E k \in 1..Len(t.inputs) :
        /\ t.inputs[k].unlocking_script.none
        /\ estimated_unlocking_byte_length_raises(t.inputs[k].script_type,
                                                  t.inputs[k].private_keys)

\* an estimate that counts 41 + the estimated unlocking length for every input,
\* signed or not
estimated_byte_length_ignoring_unlocking(t) ==
    4 + Len(unsigned_to_varint(Digits(Len(t.inputs))))
      + Len(unsigned_to_varint(Digits(Len(t.outputs)))) + 4
    + Sum([k \in 1..Len(t.inputs) |->
            41 + estimated_unlocking_byte_length(t.inputs[k].script_type,
                                                 t.inputs[k].private_keys)])
    + Sum([k \in 1..Len(t.outputs) |->
            8 + Len(Script_byte_length_varint(t.outputs[k].locking_script))
              + Script_byte_length(t.outputs[k].locking_script)])

estimated_byte_length(t) ==
    4 + Len(unsigned_to_varint(Digits(Len(t.inputs))))
      + Len(unsigned_to_varint(Digits(Len(t.outputs)))) + 4
    + Sum([k \in 1..Len(t.inputs) |->
            IF ~t.inputs[k].unlocking_script.none
            THEN Len(TxInput_serialize(t.inputs[k]))
            ELSE 41 + estimated_unlocking_byte_length(t.inputs[k].script_type,
                                                      t.inputs[k].private_keys)])
    + Sum([k \in 1..Len(t.outputs) |->
            8 + Len(Script_byte_length_varint(t.outputs[k].locking_script))
              + Script_byte_length(t.outputs[k].locking_script)])

\* math.ceil(fee_rate * n) for a fee rate num/den that floats hold exactly
ceil_rate(fee_rate, n) == (fee_rate.num * n + fee_rate.den - 1) \div fee_rate.den

estimated_fee(t) == ceil_rate(t.fee_rate, estimated_byte_length(t))

add_change_size_increased(t) ==
    34 + Len(unsigned_to_varint(Digits(Len(t.outputs) + 1)))
       - Len(unsigned_to_varint(Digits(Len(t.outputs))))

\* a fee_expected that forgets the change output about to be added
add_change_fee_expected_without_change(t) == ceil_rate(t.fee_rate, estimated_byte_length(t))

add_change_fee_expected(t) ==
    ceil_rate(t.fee_rate, estimated_byte_length(t) + add_change_size_increased(t))

add_change_fee_overpaid(t) == fee(t) - add_change_fee_expected(t)

NoAddress == ""

\* a destination lookup that runs through the inputs from the last one
P2PKHInputs_from_last(t) ==
    Reverse(SelectSeq(t.inputs, LAMBDA tx_input : tx_input.script_type = P2PKH))

\* the inputs whose script type is P2PKH, in input order
P2PKHInputs(t) == SelectSeq(t.inputs, LAMBDA tx_input : tx_input.script_type = P2PKH)

\* an add_change that also appends when the surplus is zero
add_change_appends_on_zero(t) == add_change_fee_overpaid(t) >= 0

\* if fee_overpaid > 0
add_change_appends(t) == add_change_fee_overpaid(t) > 0

Transaction_add_change(t, change_address) ==
    IF estimated_byte_length_raises(t) THEN [tx |-> t, raised |-> "ValueError"]
    ELSE IF add_change_appends(t)
    THEN IF change_address = NoAddress
         THEN IF P2PKHInputs(t) = <<>>
              THEN [tx |-> t, raised |-> "AssertionError"]
              ELSE [tx |-> [t EXCEPT !.outputs =
                               Append(@, TxOutput(P2PKHInputs(t)[1].locking_script,
                                                  add_change_fee_overpaid(t), P2PKH))],
                    raised |-> ""]
         ELSE [tx |-> [t EXCEPT !.outputs =
                          Append(@, TxOutput_from_address(change_address,
                                                          add_change_fee_overpaid(t)))],
               raised |-> ""]
    ELSE [tx |-> t, raised |-> ""]

\* Service(network, provider).broadcast(rawtx): the broadcaster is an external
\* collaborator; what it is handed is the list of the hex strings it received
Service_broadcast(rawtx) == <<rawtx>>

Transaction_hex(t) == bytes_hex(Transaction_serialize(t))

\* [handed, raised, required, available]: required and available are the two
\* numbers of the InsufficientFunds message
Transaction_broadcast(t, check_fee) ==
    IF estimated_byte_length_raises(t)
    THEN [handed |-> <<>>, raised |-> "ValueError", required |-> 0, available |-> 0]
    ELSE IF check_fee /\ fee(t) < estimated_fee(t)
    THEN [handed |-> <<>>, raised |-> "InsufficientFunds",
          required |-> total_value_out(t) + estimated_fee(t),
          available |-> total_value_in(t)]
    ELSE [handed |-> Service_broadcast(Transaction_hex(t)), raised |-> "",
          required |-> 0, available |-> 0]

-----------------------------------------------------------------------------
(* Values the operations are driven with.                                  *)

TxidA == [k \in 1..(2 * TxidLen) |-> k % 16]
TxidB == [k \in 1..(2 * TxidLen) |-> (3 * k + 1) % 16]

LockA == P2PKH_locking("addrA")
LockB == P2PKH_locking("addrB")
OpaqueLock == Script(Bytes(<<81, 135>>))

InputAttrValues(attr) ==
    CASE attr = "txid" -> {TxidA, TxidB}
      [] attr = "vout" -> {0, 1}
      [] attr = "value" -> {1000, 2000}
      [] attr = "locking_script" -> {LockA, LockB}
      [] attr = "sequence" -> {SEQUENCE, 0}
      [] attr = "sighash" -> SighashValues

InputAttrs == {"txid", "vout", "value", "locking_script", "sequence", "sighash"}

OutputAttrValues(attr) ==
    CASE attr = "value" -> {100, 200}
      [] attr = "locking_script" -> {LockA, LockB}

OutputAttrs == {"value", "locking_script"}

DigestInput(k, sighash) ==
    TxInput(Unspent(IF k % 2 = 1 THEN TxidA ELSE TxidB, (k - 1) \div 2, 1000,
                    <<"k1">>, P2PKH, LockA),
            NoScript, SEQUENCE, sighash)

DigestOutput(k) == TxOutput(IF k % 2 = 1 THEN LockB ELSE LockA, 100, P2PKH)

DigestTransactions ==
    { Transaction([k \in 1..n |-> DigestInput(k, sh[k])], [k \in 1..m |-> DigestOutput(k)],
                  VERSION, LOCKTIME, FEE_RATE) :
        <<n, m, sh>> \in { <<n, m, sh>> \in (1..MaxInputs) \X (0..MaxOutputs)
                                           \X [1..MaxInputs -> SighashValues] :
                            \A k \in (n + 1)..MaxInputs : sh[k] = ALL_FORKID } }

-----------------------------------------------------------------------------
(* SpecDigest: digests() and digest(index) on a transaction whose inputs   *)
(* and outputs are reassigned attribute by attribute.                      *)

InitDigest ==
    /\ tx \in DigestTransactions
    /\ op = "init"
    /\ arg = <<>>
    /\ ret = <<>>
    /\ raised = ""
    /\ budget = MaxMutations
    /\ opaque_estimate = "raise"

\* tx.inputs[i].<attr> = v
SetInputAttr(i, attr, v) ==
    /\ budget > 0
    /\ i \in 1..Len(tx.inputs)
    /\ tx.inputs[i][attr] # v
    /\ tx' = [tx EXCEPT !.inputs[i][attr] = v]
    /\ budget' = budget - 1
    /\ op' = "set_input"
    /\ arg' = <<i - 1, attr>>
    /\ ret' = <<>>
    /\ raised' = ""
    /\ UNCHANGED opaque_estimate

\* tx.outputs[j].<attr> = v
SetOutputAttr(j, attr, v) ==
    /\ budget > 0
    /\ j \in 1..Len(tx.outputs)
    /\ tx.outputs[j][attr] # v
    /\ tx' = [tx EXCEPT !.outputs[j][attr] = v]
    /\ budget' = budget - 1
    /\ op' = "set_output"
    /\ arg' = <<j - 1, attr>>
    /\ ret' = <<>>
    /\ raised' = ""
    /\ UNCHANGED opaque_estimate

Digests ==
    /\ op' = "digests"
    /\ arg' = <<>>
    /\ ret' = Transaction_digests(tx)
    /\ raised' = ""
    /\ UNCHANGED <<tx, budget, opaque_estimate>>

Digest(index) ==
    /\ op' = "digest"
    /\ arg' = <<index>>
    /\ IF Transaction_digest_raises(tx, index)
       THEN ret' = <<>> /\ raised' = "AssertionError"
       ELSE ret' = Transaction_digest(tx, index) /\ raised' = ""
    /\ UNCHANGED <<tx, budget, opaque_estimate>>

NextDigest ==
    \/ \E i \in 1..MaxInputs, attr \in InputAttrs :
          \E v \in InputAttrValues(attr) : SetInputAttr(i, attr, v)
    \/ \E j \in 1..MaxOutputs, attr \in OutputAttrs :
          \E v \in OutputAttrValues(attr) : SetOutputAttr(j, attr, v)
    \/ Digests
    \/ \E index \in 0..MaxInputs : Digest(index)

SpecDigest == InitDigest /\ [][NextDigest]_vars

-----------------------------------------------------------------------------
(* The digest algorithm as the specification words it, for the claims.     *)

AnyoneCanPaySet == {ALL_ANYONECANPAY_FORKID, NONE_ANYONECANPAY_FORKID, SINGLE_ANYONECANPAY_FORKID}
SingleSet == {SINGLE_FORKID, SINGLE_ANYONECANPAY_FORKID}
NoneSet == {NONE_FORKID, NONE_ANYONECANPAY_FORKID}

ExpectedHashPrevouts(t, i) ==
    IF t.inputs[i].sighash \in AnyoneCanPaySet THEN Zeros(32)
    ELSE hash256(Concat([k \in 1..Len(t.inputs) |-> OutpointOf(t.inputs[k])]))

ExpectedHashSequence(t, i) ==
    IF t.inputs[i].sighash \in AnyoneCanPaySet \cup SingleSet \cup NoneSet THEN Zeros(32)
    ELSE hash256(Concat([k \in 1..Len(t.inputs) |-> int_to_bytes(t.inputs[k].sequence, 4)]))

ExpectedHashOutputs(t, i) ==
    IF t.inputs[i].sighash \notin SingleSet \cup NoneSet
    THEN hash256(Concat([k \in 1..Len(t.outputs) |-> TxOutput_serialize(t.outputs[k])]))
    ELSE IF t.inputs[i].sighash \in SingleSet /\ i <= Len(t.outputs)
    THEN hash256(TxOutput_serialize(t.outputs[i]))
    ELSE Zeros(32)

ExpectedPreimage(t, i) ==
    int_to_bytes(t.version, 4)
    \o ExpectedHashPrevouts(t, i)
    \o ExpectedHashSequence(t, i)
    \o OutpointOf(t.inputs[i])
    \o unsigned_to_varint(Digits(Len(t.inputs[i].locking_script.script)))
    \o t.inputs[i].locking_script.script
    \o int_to_bytes(t.inputs[i].value, 8)
    \o int_to_bytes(t.inputs[i].sequence, 4)
    \o ExpectedHashOutputs(t, i)
    \o int_to_bytes(t.locktime, 4)
    \o int_to_bytes(t.inputs[i].sighash, 4)

\* C1: in every preimage digests() returns, octets 5..36 are hash_prevouts_i
\* (32 zero octets under ANYONECANPAY, else hash256 of all outpoints) and
\* octets 37..68 are hash_sequence_i (32 zero octets under ANYONECANPAY,
\* SINGLE or NONE, else hash256 of all sequences).
C1_PrevoutsAndSequenceCommitment ==
    (op = "digests") =>
        \A i \in 1..Len(tx.inputs) :
            /\ SubSeq(ret[i], 5, 36) = ExpectedHashPrevouts(tx, i)
            /\ SubSeq(ret[i], 37, 68) = ExpectedHashSequence(tx, i)

C1_Witness ==
    /\ op = "digests"
    /\ Len(tx.inputs) = 2
    /\ tx.inputs[1].sighash = ALL_FORKID
    /\ tx.inputs[2].sighash = NONE_ANYONECANPAY_FORKID
    /\ SubSeq(ret[1], 5, 36) # Zeros(32)
    /\ SubSeq(ret[2], 5, 36) = Zeros(32)

\* C2: in every preimage digests() returns, the 32 octets before the locktime
\* and sighash are hash_outputs_i: hash256 of all serialized outputs when the
\* base type is neither SINGLE nor NONE, hash256 of output i alone for SINGLE
\* with i < len(outputs), 32 zero octets otherwise; digests() does not fail.
C2_OutputsCommitment ==
    (op = "digests") =>
        /\ raised = ""
        /\ \A i \in 1..Len(tx.inputs) :
              SubSeq(ret[i], Len(ret[i]) - 39, Len(ret[i]) - 8) = ExpectedHashOutputs(tx, i)

C2_Witness ==
    /\ op = "digests"
    /\ raised = ""
    /\ Len(tx.inputs) = 2
    /\ Len(tx.outputs) = 1
    /\ tx.inputs[1].sighash = SINGLE_FORKID
    /\ tx.inputs[2].sighash = SINGLE_FORKID
    /\ SubSeq(ret[1], Len(ret[1]) - 39, Len(ret[1]) - 8) = hash256(TxOutput_serialize(tx.outputs[1]))
    /\ SubSeq(ret[2], Len(ret[2]) - 39, Len(ret[2]) - 8) = Zeros(32)

\* two transactions that differ at most in input i (python index i - 1)
SameButInput(t, u, i) ==
    /\ Len(t.inputs) = Len(u.inputs)
    /\ \A k \in 1..Len(t.inputs) : k # i => t.inputs[k] = u.inputs[k]
    /\ [t EXCEPT !.inputs = <<>>] = [u EXCEPT !.inputs = <<>>]

\* two transactions that differ at most in output j (python index j - 1)
SameButOutput(t, u, j) ==
    /\ Len(t.outputs) = Len(u.outputs)
    /\ \A k \in 1..Len(t.outputs) : k # j => t.outputs[k] = u.outputs[k]
    /\ [t EXCEPT !.outputs = <<>>] = [u EXCEPT !.outputs = <<>>]

TwoByTwo(t) == Len(t.inputs) = 2 /\ Len(t.outputs) = 2

\* C3: in a 2-input, 2-output transaction whose input 0 signs with
\* ANYONECANPAY|SINGLE, a step that changes only input 1 or only output 1
\* leaves the digest of input 0 as it was.
C3_AnyoneCanPaySingleIndependence ==
    [][ ( /\ TwoByTwo(tx)
          /\ tx.inputs[1].sighash = SINGLE_ANYONECANPAY_FORKID
          /\ SameButInput(tx, tx', 2) \/ SameButOutput(tx, tx', 2) )
        => Transaction_digests(tx')[1] = Transaction_digests(tx)[1] ]_vars

C3_Witness ==
    /\ TwoByTwo(tx)
    /\ tx.inputs[1].sighash = SINGLE_ANYONECANPAY_FORKID
    /\ op = "set_input"
    /\ arg = <<1, "txid">>

AllPlainAll(t) == \A k \in 1..Len(t.inputs) : t.inputs[k].sighash = ALL_FORKID

\* C4 as stated: with plain ALL on both inputs of a 2-input, 2-output
\* transaction, any change of an input or an output changes every digest.
C4_AsStated ==
    [][ ( /\ TwoByTwo(tx) /\ TwoByTwo(tx')
          /\ AllPlainAll(tx) /\ AllPlainAll(tx')
          /\ tx' # tx )
        => \A i \in 1..2 : Transaction_digests(tx')[i] # Transaction_digests(tx)[i] ]_vars

ChangedCommitment(t, u) ==
    \/ \E k \in 1..Len(t.inputs) :
          \/ OutpointOf(t.inputs[k]) # OutpointOf(u.inputs[k])
          \/ t.inputs[k].sequence # u.inputs[k].sequence
    \/ t.outputs # u.outputs

\* C4 as amended: with plain ALL on both inputs of a 2-input, 2-output
\* transaction, a change of any input's outpoint or sequence or of any output
\* changes the digest of every input; a change of one input's value or
\* locking script alone changes the digest of that input and of no other.
C4_AllCommitsOutpointsSequencesOutputs ==
    [][ ( /\ TwoByTwo(tx) /\ TwoByTwo(tx')
          /\ AllPlainAll(tx) /\ AllPlainAll(tx')
          /\ tx' # tx )
        => IF ChangedCommitment(tx, tx')
           THEN \A i \in 1..2 : Transaction_digests(tx')[i] # Transaction_digests(tx)[i]
           ELSE \A i \in 1..2 :
                   (Transaction_digests(tx')[i] # Transaction_digests(tx)[i])
                       <=> (tx'.inputs[i] # tx.inputs[i]) ]_vars

C4_Witness ==
    /\ TwoByTwo(tx)
    /\ AllPlainAll(tx)
    /\ op = "set_input"
    /\ arg = <<1, "sequence">>

\* C5 as stated: digest(i) and digests()[i] are hash256 of the preimage.
C5_AsStated ==
    /\ (op = "digest" /\ raised = "") => ret = hash256(ExpectedPreimage(tx, arg[1] + 1))
    /\ (op = "digests") =>
          \A i \in 1..Len(tx.inputs) : ret[i] = hash256(ExpectedPreimage(tx, i))

\* C5 as amended: digest(i) and digests()[i] are the preimage
\* version, hash_prevouts_i, hash_sequence_i, outpoint_i, scriptCode_i,
\* value_i, sequence_i, hash_outputs_i, locktime, sighash_i itself; hash256 is
\* not applied to it.
C5_DigestIsPreimage ==
    /\ (op = "digest" /\ raised = "") => ret = ExpectedPreimage(tx, arg[1] + 1)
    /\ (op = "digests") =>
          /\ Len(ret) = Len(tx.inputs)
          /\ \A i \in 1..Len(tx.inputs) : ret[i] = ExpectedPreimage(tx, i)

C5_Witness ==
    /\ op = "digest"
    /\ raised = ""
    /\ arg = <<1>>
    /\ Len(tx.inputs) = 2
    /\ Len(ret) = 182

-----------------------------------------------------------------------------
(* SpecParse: Transaction.from_hex on the serialization of a transaction   *)
(* and on every strict prefix of it.                                       *)

PresetUnlocking == Script(Bytes(<<2, 7, 9>>))

ParseInputs ==
    { TxInput(Unspent(TxidA, 0, 1000, <<"k1">>, P2PKH, LockA), NoScript, SEQUENCE, ALL_FORKID),
      TxInput(Unspent(TxidB, 1, 2000, <<>>, Unknown, OpaqueLock), PresetUnlocking, 0,
              SINGLE_ANYONECANPAY_FORKID),
      TxInput(Unspent(TxidB, 0, 0, <<>>, Unknown, Script(<<>>)), Script(<<>>), 5, ALL_FORKID) }

ParseOutputs ==
    { TxOutput(LockB, 500, P2PKH), TxOutput(OpaqueLock, 0, Unknown) }

ParseTransactions ==
    UNION { { Transaction(ins, outs, VERSION, LOCKTIME, FEE_RATE) :
                ins \in [1..n -> ParseInputs], outs \in [1..m -> ParseOutputs] } :
            n \in 0..MaxInputs, m \in 0..MaxOutputs }

InitParse ==
    /\ tx \in ParseTransactions
    /\ op = "init"
    /\ arg = <<>>
    /\ ret = <<>>
    /\ raised = ""
    /\ budget = 0
    /\ opaque_estimate = "raise"

\* Transaction.from_hex(tx.serialize()), applied to the transaction drawn
FromHex ==
    /\ op = "init"
    /\ op' = "from_hex"
    /\ arg' = <<Transaction_serialize(tx)>>
    /\ ret' = Transaction_from_hex(arg'[1])
    /\ raised' = ""
    /\ UNCHANGED <<tx, budget, opaque_estimate>>

\* Transaction.from_hex(tx.serialize()[:n]) for some n < len(tx.serialize())
FromHexTruncated ==
    /\ op = "init"
    /\ LET raw == Transaction_serialize(tx)
       IN  \E n \in 0..(Len(raw) - 1) :
              /\ arg' = <<SubSeq(raw, 1, n)>>
              /\ ret' = Transaction_from_hex(arg'[1])
    /\ op' = "from_hex_truncated"
    /\ raised' = ""
    /\ UNCHANGED <<tx, budget, opaque_estimate>>

NextParse ==
    \/ FromHex
    \/ FromHexTruncated

SpecParse == InitParse /\ [][NextParse]_vars

\* C6 as stated: from_hex(serialize(T)) equals T field for field.
C6_AsStated ==
    (op = "from_hex") =>
        /\ ~ret.none
        /\ ret.tx.version = tx.version
        /\ ret.tx.locktime = tx.locktime
        /\ Len(ret.tx.inputs) = Len(tx.inputs)
        /\ Len(ret.tx.outputs) = Len(tx.outputs)
        /\ \A k \in 1..Len(tx.inputs) :
              /\ ret.tx.inputs[k].txid = tx.inputs[k].txid
              /\ ret.tx.inputs[k].vout = tx.inputs[k].vout
              /\ ret.tx.inputs[k].value = tx.inputs[k].value
              /\ ret.tx.inputs[k].locking_script = tx.inputs[k].locking_script
              /\ ret.tx.inputs[k].unlocking_script = tx.inputs[k].unlocking_script
              /\ ret.tx.inputs[k].sequence = tx.inputs[k].sequence
              /\ ret.tx.inputs[k].sighash = tx.inputs[k].sighash
        /\ \A k \in 1..Len(tx.outputs) :
              /\ ret.tx.outputs[k].value = tx.outputs[k].value
              /\ ret.tx.outputs[k].locking_script = tx.outputs[k].locking_script

\* C6 as amended: from_hex(serialize(T)) is a transaction with T's version and
\* locktime, for each input in order T's outpoint and sequence and the octets
\* of T's unlocking script (an absent unlocking script comes back as the
\* empty script), for each output in order T's value and locking script; the
\* value, locking script and sighash of an input are not in the bytes and
\* come back as 0, the empty script and ALL|FORKID.
C6_RoundTripOfSerializedFields ==
    (op = "from_hex") =>
        /\ ~ret.none
        /\ ret.tx.version = tx.version
        /\ ret.tx.locktime = tx.locktime
        /\ Len(ret.tx.inputs) = Len(tx.inputs)
        /\ Len(ret.tx.outputs) = Len(tx.outputs)
        /\ \A k \in 1..Len(tx.inputs) :
              /\ ret.tx.inputs[k].txid = tx.inputs[k].txid
              /\ ret.tx.inputs[k].vout = tx.inputs[k].vout
              /\ ret.tx.inputs[k].sequence = tx.inputs[k].sequence
              /\ ~ret.tx.inputs[k].unlocking_script.none
              /\ ret.tx.inputs[k].unlocking_script.script = tx.inputs[k].unlocking_script.script
              /\ ret.tx.inputs[k].value = 0
              /\ ret.tx.inputs[k].locking_script = Script(<<>>)
              /\ ret.tx.inputs[k].sighash = ALL_FORKID
        /\ \A k \in 1..Len(tx.outputs) :
              /\ ret.tx.outputs[k].value = tx.outputs[k].value
              /\ ret.tx.outputs[k].locking_script = tx.outputs[k].locking_script

C6_Witness ==
    /\ op = "from_hex"
    /\ Len(tx.inputs) = 2
    /\ Len(tx.outputs) = 2
    /\ tx.inputs[1].unlocking_script.none
    /\ tx.inputs[1].value = 1000
    /\ tx.inputs[2].unlocking_script = PresetUnlocking
    /\ tx.inputs[2].sighash = SINGLE_ANYONECANPAY_FORKID
    /\ ~ret.none

\* C7: from_hex of a strict prefix of a valid serialization returns None.
C7_TruncatedStreamReturnsNone ==
    (op = "from_hex_truncated") => ret.none

-----------------------------------------------------------------------------
(* Spec: a transaction built with add_input and add_output, signed, and    *)
(* given its change output.                                                *)

FeeRates == {[num |-> 0, den |-> 1], FEE_RATE, [num |-> 1, den |-> 1]}

SpendableA == Unspent(TxidA, 0, 1000, <<"k1">>, P2PKH, LockA)
SpendableB == Unspent(TxidB, 0, 600, <<"k2">>, P2PKH, LockB)
OpaqueUnspent == Unspent(TxidB, 1, 600, <<>>, Unknown, OpaqueLock)

NewInputs ==
    { TxInput(SpendableA, NoScript, SEQUENCE, ALL_FORKID),
      TxInput(SpendableB, NoScript, SEQUENCE, SINGLE_ANYONECANPAY_FORKID),
      TxInput(OpaqueUnspent, PresetUnlocking, SEQUENCE, ALL_FORKID),
      TxInput(OpaqueUnspent, NoScript, SEQUENCE, ALL_FORKID) }

NewOutputs == { TxOutput_from_address("addrB", 500), TxOutput_from_address("addrB", 774) }

Init ==
    /\ \E fee_rate \in FeeRates : tx = Transaction(<<>>, <<>>, VERSION, LOCKTIME, fee_rate)
    /\ op = "init"
    /\ arg = <<>>
    /\ ret = <<>>
    /\ raised = ""
    /\ budget = 0
    /\ opaque_estimate \in {"zero", "raise"}

\* add_input of an input that spends an outpoint not yet spent by tx
AddInput(tx_input) ==
    /\ Len(tx.inputs) < MaxInputs
    /\ \A k \in 1..Len(tx.inputs) : OutpointOf(tx.inputs[k]) # OutpointOf(tx_input)
    /\ tx' = [tx EXCEPT !.inputs = Append(@, tx_input)]
    /\ op' = "add_input"
    /\ arg' = <<>>
    /\ ret' = <<>>
    /\ raised' = ""
    /\ UNCHANGED <<budget, opaque_estimate>>

AddOutput(tx_output) ==
    /\ Len(tx.outputs) < MaxOutputs
    /\ tx' = [tx EXCEPT !.outputs = Append(@, tx_output)]
    /\ op' = "add_output"
    /\ arg' = <<>>
    /\ ret' = <<>>
    /\ raised' = ""
    /\ UNCHANGED <<budget, opaque_estimate>>

Sign(bypass) ==
    /\ tx' = Transaction_sign(tx, bypass).tx
    /\ raised' = Transaction_sign(tx, bypass).raised
    /\ op' = "sign"
    /\ arg' = <<bypass>>
    /\ ret' = <<>>
    /\ UNCHANGED <<budget, opaque_estimate>>

AddChange(change_address) ==
    /\ tx' = Transaction_add_change(tx, change_address).tx
    /\ raised' = Transaction_add_change(tx, change_address).raised
    /\ op' = "add_change"
    /\ arg' = <<change_address>>
    /\ ret' = <<>>
    /\ UNCHANGED <<budget, opaque_estimate>>

Next ==
    \/ \E tx_input \in NewInputs : AddInput(tx_input)
    \/ \E tx_output \in NewOutputs : AddOutput(tx_output)
    \/ \E bypass \in BOOLEAN : Sign(bypass)
    \/ \E change_address \in {NoAddress, "addrA"} : AddChange(change_address)

Spec == Init /\ [][Next]_vars

\* C8: sign() under the default policy (bypass=True) leaves the unlocking
\* script of every input that already has one unchanged, a second sign()
\* right after a first leaves the transaction and its outcome as they were,
\* and an unlocking script that is already set is only ever replaced by
\* sign(bypass=False).
C8_SignBypassIdempotent ==
    [][ /\ (op' = "sign" /\ arg' = <<TRUE>>) =>
              /\ Len(tx'.inputs) = Len(tx.inputs)
              /\ \A k \in 1..Len(tx.inputs) :
                    ~tx.inputs[k].unlocking_script.none => tx'.inputs[k] = tx.inputs[k]
        /\ (op = "sign" /\ arg = <<TRUE>> /\ op' = "sign" /\ arg' = <<TRUE>>) =>
              tx' = tx /\ raised' = raised
        /\ (\E k \in 1..Len(tx.inputs) :
               /\ ~tx.inputs[k].unlocking_script.none
               /\ tx'.inputs[k].unlocking_script # tx.inputs[k].unlocking_script) =>
              op' = "sign" /\ arg' = <<FALSE>> ]_vars

\* the unlocking script signing input i (from 1) of t now would produce
FreshUnlocking(t, i) ==
    P2PKH_unlocking(<<PrivateKey_sign(t.inputs[i].private_keys[1], ExpectedPreimage(t, i))>>,
                    t.inputs[i].private_keys, t.inputs[i].sighash)

\* after sign(), input 0 still carries the signature it got before an output
\* was added, and input 1 has been signed by this call
C8_Witness ==
    /\ op = "sign"
    /\ arg = <<TRUE>>
    /\ raised = ""
    /\ Len(tx.inputs) = 2
    /\ tx.inputs[1].script_type = P2PKH
    /\ tx.inputs[2].script_type = P2PKH
    /\ ~tx.inputs[1].unlocking_script.none
    /\ tx.inputs[1].unlocking_script # FreshUnlocking(tx, 1)
    /\ tx.inputs[2].unlocking_script = FreshUnlocking(tx, 2)

VarintGrowth(n) ==
    Len(unsigned_to_varint(Digits(n + 1))) - Len(unsigned_to_varint(Digits(n)))

CeilTimes(fee_rate, n) ==
    CHOOSE c \in 0..(fee_rate.num * n + 1) :
        /\ c * fee_rate.den >= fee_rate.num * n
        /\ (c - 1) * fee_rate.den < fee_rate.num * n

\* C9: when add_change appends a pay-to-pubkey-hash change output, its value
\* is fee() before the call minus ceil(fee_rate * (estimated_byte_length + 34
\* + growth of the output-count varint)), and right after the call fee()
\* equals estimated_fee().
C9_ChangeValueAndFeeAfter ==
    [][ (op' = "add_change" /\ Len(tx'.outputs) = Len(tx.outputs) + 1) =>
            LET change == tx'.outputs[Len(tx'.outputs)]
            IN  /\ change.script_type = P2PKH
                /\ change.value =
                      fee(tx) - CeilTimes(tx.fee_rate,
                                          estimated_byte_length(tx) + 34
                                          + VarintGrowth(Len(tx.outputs)))
                /\ fee(tx') = estimated_fee(tx') ]_vars

\* inputs 1000, one output of 500, fee rate 1: a change of 274 was appended
C9_Witness ==
    /\ op = "add_change"
    /\ raised = ""
    /\ tx.fee_rate = [num |-> 1, den |-> 1]
    /\ total_value_in(tx) = 1000
    /\ Len(tx.outputs) = 2
    /\ tx.outputs[1].value = 500
    /\ tx.outputs[2].value = 274
    /\ tx.outputs[2].locking_script = LockA

\* C10: when the surplus fee() - fee_expected is not strictly positive,
\* add_change returns without error and leaves the transaction, its outputs
\* and its inputs, as it was, whatever the change address and the inputs.
C10_NoChangeWithoutSurplus ==
    [][ ( /\ op' = "add_change"
          /\ ~estimated_byte_length_raises(tx)
          /\ fee(tx) - CeilTimes(tx.fee_rate,
                                 estimated_byte_length(tx) + 34
                                 + VarintGrowth(Len(tx.outputs))) <= 0 )
        => tx' = tx /\ raised' = "" ]_vars

\* add_change without address on a transaction with no pay-to-pubkey-hash
\* input and a surplus of at most 0 has returned
C10_Witness ==
    /\ op = "add_change"
    /\ arg = <<NoAddress>>
    /\ raised = ""
    /\ tx.inputs # <<>>
    /\ P2PKHInputs(tx) = <<>>
    /\ add_change_fee_overpaid(tx) <= 0

C10_WitnessZeroSurplus ==
    /\ op = "add_change"
    /\ raised = ""
    /\ add_change_fee_overpaid(tx) = 0

\* fee() minus the fee expected once a change output is there
Surplus(t) ==
    fee(t) - CeilTimes(t.fee_rate,
                       estimated_byte_length(t) + 34 + VarintGrowth(Len(t.outputs)))

FirstP2PKH(t) ==
    CHOOSE k \in 1..Len(t.inputs) :
        /\ t.inputs[k].script_type = P2PKH
        /\ \A j \in 1..(k - 1) : t.inputs[j].script_type # P2PKH

C11_WitnessNoDestination ==
    /\ op = "add_change"
    /\ arg = <<NoAddress>>
    /\ raised = "AssertionError"
    /\ tx.inputs # <<>>
    /\ ~estimated_byte_length_raises(tx)
    /\ Surplus(tx) > 0

-----------------------------------------------------------------------------
(* SpecQuery: a transaction constructed from lists of inputs and outputs,  *)
(* signed, measured, serialized and broadcast.                             *)

QueryFeeRates == {FEE_RATE, [num |-> 1, den |-> 1]}

\* the tx_inputs lists handed to the constructor: no outpoint spent twice
QueryInputLists ==
    { ins \in UNION { [1..n -> NewInputs] : n \in 0..MaxInputs } :
        \A j, k \in 1..Len(ins) : j # k => OutpointOf(ins[j]) # OutpointOf(ins[k]) }

QueryOutputLists == UNION { [1..m -> NewOutputs] : m \in 0..MaxOutputs }

InitQuery ==
    /\ \E ins \in QueryInputLists, outs \in QueryOutputLists, fee_rate \in QueryFeeRates :
           tx = Transaction(ins, outs, VERSION, LOCKTIME, fee_rate)
    /\ op = "init"
    /\ arg = <<>>
    /\ ret = <<>>
    /\ raised = ""
    /\ budget = 0
    /\ opaque_estimate \in {"zero", "raise"}

\* a result is a record named after the operation that returned it
Broadcast(check_fee) ==
    /\ raised' = Transaction_broadcast(tx, check_fee).raised
    /\ ret' = [ handed |-> Transaction_broadcast(tx, check_fee).handed,
                required |-> Transaction_broadcast(tx, check_fee).required,
                available |-> Transaction_broadcast(tx, check_fee).available ]
    /\ op' = "broadcast"
    /\ arg' = <<check_fee>>
    /\ UNCHANGED <<tx, budget, opaque_estimate>>

EstimatedByteLength ==
    /\ raised' = IF estimated_byte_length_raises(tx) THEN "ValueError" ELSE ""
    /\ ret' = IF estimated_byte_length_raises(tx) THEN <<>>
              ELSE [estimated_byte_length |-> estimated_byte_length(tx)]
    /\ op' = "estimated_byte_length"
    /\ arg' = <<>>
    /\ UNCHANGED <<tx, budget, opaque_estimate>>

Serialize ==
    /\ ret' = [serialize |-> Transaction_serialize(tx)]
    /\ raised' = ""
    /\ op' = "serialize"
    /\ arg' = <<>>
    /\ UNCHANGED <<tx, budget, opaque_estimate>>

Hex ==
    /\ ret' = [hex |-> Transaction_hex(tx)]
    /\ raised' = ""
    /\ op' = "hex"
    /\ arg' = <<>>
    /\ UNCHANGED <<tx, budget, opaque_estimate>>

Txid ==
    /\ ret' = [txid |-> Transaction_txid(tx)]
    /\ raised' = ""
    /\ op' = "txid"
    /\ arg' = <<>>
    /\ UNCHANGED <<tx, budget, opaque_estimate>>

NextQuery ==
    \/ \E bypass \in BOOLEAN : Sign(bypass)
    \/ \E check_fee \in BOOLEAN : Broadcast(check_fee)
    \/ EstimatedByteLength
    \/ Serialize
    \/ Hex
    \/ Txid

SpecQuery == InitQuery /\ [][NextQuery]_vars

\* C12: broadcast(check_fee=True) fails with InsufficientFunds exactly when
\* fee() < estimated_fee(), reporting required = total_value_out +
\* estimated_fee and available = total_value_in and handing nothing to the
\* broadcaster; when fee() >= estimated_fee() or check_fee is False the
\* serialized transaction is handed to the broadcaster.
C12_BroadcastFeeCheck ==
    (op = "broadcast") =>
        LET fee_expected == CeilTimes(tx.fee_rate, estimated_byte_length(tx))
        IN  /\ (arg = <<TRUE>>) =>
                   ((raised = "InsufficientFunds") <=> (fee(tx) < fee_expected))
            /\ (raised = "InsufficientFunds") =>
                   /\ ret.handed = <<>>
                   /\ ret.required = total_value_out(tx) + fee_expected
                   /\ ret.available = total_value_in(tx)
            /\ (arg = <<FALSE>> \/ fee(tx) >= fee_expected) =>
                   /\ raised = ""
                   /\ ret.handed = <<bytes_hex(Transaction_serialize(tx))>>

\* the same statement for the transactions whose size estimate can be
\* computed: every input without unlocking script has a script type that
\* gives an estimate
C12_BroadcastFeeCheckWhenEstimable ==
    (op = "broadcast" /\ ~estimated_byte_length_raises(tx)) => C12_BroadcastFeeCheck

\* broadcast(check_fee=True) of a transaction that pays less than its
\* estimated fee has failed, and one with check_fee=False has gone out
C12_Witness ==
    /\ op = "broadcast"
    /\ arg = <<TRUE>>
    /\ raised = "InsufficientFunds"
    /\ tx.inputs # <<>>
    /\ tx.outputs # <<>>
    /\ ret.required > ret.available

\* the octets serialize() writes for input k when it has no unlocking script
UnsignedInputLength == 41

EstimateOf(script_type) == IF script_type = P2PKH THEN 107 ELSE 0

Unsigned(t) == { k \in 1..Len(t.inputs) : t.inputs[k].unlocking_script.none }

\* C13: whenever every input has its unlocking script set,
\* estimated_byte_length() equals the length of serialize(); an input without
\* unlocking script, which serialize() writes in 41 octets, is counted as 41
\* plus the estimated unlocking length of its script type.
C13_EstimateMatchesSerializedLength ==
    (op = "estimated_byte_length" /\ raised = "") =>
        /\ (Unsigned(tx) = {}) => ret.estimated_byte_length = Len(Transaction_serialize(tx))
        /\ \A k \in Unsigned(tx) : Len(TxInput_serialize(tx.inputs[k])) = UnsignedInputLength
        /\ ret.estimated_byte_length = Len(Transaction_serialize(tx))
                    + Sum([k \in 1..Len(tx.inputs) |->
                              IF k \in Unsigned(tx)
                              THEN EstimateOf(tx.inputs[k].script_type) ELSE 0])

\* the estimate of a transaction of two inputs, one signed by sign() and one
\* constructed with its unlocking script, and an output
C13_Witness ==
    /\ op = "estimated_byte_length"
    /\ raised = ""
    /\ Len(tx.inputs) = 2
    /\ Unsigned(tx) = {}
    /\ \E k \in 1..2 : tx.inputs[k].script_type = P2PKH
    /\ \E k \in 1..2 : tx.inputs[k].unlocking_script = PresetUnlocking
    /\ tx.outputs # <<>>
    /\ ret.estimated_byte_length > 200

C13_WitnessUnsigned ==
    /\ op = "estimated_byte_length"
    /\ raised = ""
    /\ Cardinality(Unsigned(tx)) = 2
    /\ ret.estimated_byte_length > Len(Transaction_serialize(tx))

QueryOps == {"serialize", "hex", "txid"}

\* C14: txid() is the hex of the reversed hash256 of what serialize() returns
\* and hex() the hex of it; serialize(), hex() and txid() leave the
\* transaction unchanged and do not fail, and a call repeated on the
\* unchanged transaction returns what the call before returned.
C14_SerializeTxidReadOnly ==
    [][ /\ (op' \in QueryOps) => (tx' = tx /\ raised' = "")
        /\ (op = "serialize" /\ op' = "txid") =>
               ret'.txid = bytes_hex(Reverse(Opaque([hash256 |-> ret.serialize], 32)))
        /\ (op = "serialize" /\ op' = "hex") => ret'.hex = bytes_hex(ret.serialize)
        /\ (op \in QueryOps /\ op' = op) => ret' = ret ]_vars

\* txid() of a signed transaction with two inputs and two outputs
C14_Witness ==
    /\ op = "txid"
    /\ Len(ret.txid) = 64
    /\ ret.txid[64] = [low |-> [hash256 |-> Transaction_serialize(tx)]]
    /\ Len(tx.inputs) = 2
    /\ Len(tx.outputs) = 2
    /\ \E k \in 1..2 : 
          /\ tx.inputs[k].script_type = P2PKH
          /\ ~tx.inputs[k].unlocking_script.none

-----------------------------------------------------------------------------
(* The binary and signature codecs: Reader (src/bsv/utils/reader.py),      *)
(* pushdata (src/bsv/utils/script.py), DER (src/bsv/utils/ecdsa.py).       *)

\* num + n for a TLC integer n >= 0
RECURSIVE AddSmall(_, _)
AddSmall(num, n) ==
    IF n = 0 THEN num
    ELSE IF num = <<>> THEN Digits(n)
    ELSE <<(Head(num) + n) % 256>> \o AddSmall(Tail(num), (Head(num) + n) \div 256)

RECURSIVE SubDigits(_, _, _, _)
SubDigits(a, b, k, borrow) ==
    IF k > Len(a) THEN <<>>
    ELSE IF a[k] - (IF k <= Len(b) THEN b[k] ELSE 0) - borrow < 0
    THEN <<a[k] - (IF k <= Len(b) THEN b[k] ELSE 0) - borrow + 256>>
         \o SubDigits(a, b, k + 1, 1)
    ELSE <<a[k] - (IF k <= Len(b) THEN b[k] ELSE 0) - borrow>>
         \o SubDigits(a, b, k + 1, 0)

\* a - b for a >= b
Sub(a, b) == Normalize(SubDigits(a, b, 1, 0))

\* num // 2
FloorDiv2(num) ==
    Normalize([k \in 1..Len(num) |->
                  (num[k] \div 2) + (IF k < Len(num) THEN 128 * (num[k + 1] % 2) ELSE 0)])

\* int.from_bytes(octets, 'big')
int_from_bytes_big(octets) == int_from_bytes(Reverse(octets))

\* Reader.read: the octets read, None when there are none
Reader(data) == [buf |-> data, pos |-> 0]

Reader_read(stream, length) ==
    Eval(read_bytes(stream, length), LAMBDA r :
        [none |-> r.val = <<>>, val |-> r.val, stream |-> r.stream])

Reader_none(stream) == [none |-> TRUE, val |-> <<>>, stream |-> stream]

Reader_read_uint8(stream) ==
    Eval(Reader_read(stream, 1), LAMBDA data :
        IF data.none THEN Reader_none(data.stream)
        ELSE [data EXCEPT !.val = Digits(data.val[1].b)])

Reader_read_uint16_le(stream) ==
    Eval(Reader_read(stream, 2), LAMBDA data :
        IF data.none THEN Reader_none(data.stream)
        ELSE [data EXCEPT !.val = int_from_bytes(data.val)])

Reader_read_uint32_le(stream) ==
    Eval(Reader_read(stream, 4), LAMBDA data :
        IF data.none THEN Reader_none(data.stream)
        ELSE [data EXCEPT !.val = int_from_bytes(data.val)])

\* the last branch of the source (raise ValueError) follows first_byte < 253,
\* == 253, == 254 and == 255 and is never taken for an octet
Reader_read_var_int_num(stream) ==
    Eval(Reader_read_uint8(stream), LAMBDA first_byte :
        IF first_byte.none THEN Reader_none(first_byte.stream)
        ELSE IF Small(first_byte.val) < 253 THEN first_byte
        ELSE IF Small(first_byte.val) = 253 THEN Reader_read_uint16_le(first_byte.stream)
        ELSE IF Small(first_byte.val) = 254 THEN Reader_read_uint32_le(first_byte.stream)
        ELSE Eval(Reader_read(first_byte.stream, 8), LAMBDA data :
                 IF data.none THEN Reader_none(data.stream)
                 ELSE [data EXCEPT !.val = int_from_bytes(data.val)]))

\* A byte string too long to write out octet by octet is its first octets
\* (prefix) followed by count copies of one octet (fill); a string written
\* out in full has count 0.
Blob(prefix, fill, count) == [prefix |-> prefix, fill |-> fill, count |-> count]

Data(octets) == Blob(octets, Lit(0), <<>>)

\* len(pushdata)
Blob_len(data) == AddSmall(data.count, Len(data.prefix))

\* pushdata[i - 1]
Blob_at(data, i) == IF i <= Len(data.prefix) THEN data.prefix[i] ELSE data.fill

\* octets + pushdata
Blob_prepend(octets, data) == [data EXCEPT !.prefix = octets \o @]

OP_0 == 0
OP_PUSHDATA1 == 76
OP_PUSHDATA2 == 77
OP_PUSHDATA4 == 78
OP_1NEGATE == 79
OP_1 == 81

\* length is the byte_length of the source
get_pushdata_code_raises(length) == ~LessEq(length, U32Max)

\* a code that leaves the raw length octet at 0x4a
get_pushdata_code_raw_below_0x4b(length) ==
    IF LessEq(length, <<74>>) THEN num_to_bytes(length, 1)
    ELSE IF LessEq(length, <<255>>) THEN <<Lit(OP_PUSHDATA1)>> \o num_to_bytes(length, 1)
    ELSE IF LessEq(length, U16Max) THEN <<Lit(OP_PUSHDATA2)>> \o num_to_bytes(length, 2)
    ELSE <<Lit(OP_PUSHDATA4)>> \o num_to_bytes(length, 4)

get_pushdata_code(length) ==
    IF LessEq(length, <<75>>) THEN num_to_bytes(length, 1)
    ELSE IF LessEq(length, <<255>>) THEN <<Lit(OP_PUSHDATA1)>> \o num_to_bytes(length, 1)
    ELSE IF LessEq(length, U16Max) THEN <<Lit(OP_PUSHDATA2)>> \o num_to_bytes(length, 2)
    ELSE <<Lit(OP_PUSHDATA4)>> \o num_to_bytes(length, 4)

\* encode_pushdata with the rules of the minimal mode in both modes
encode_pushdata_flag_ignored(pushdata, minimal_push) ==
    IF Blob_len(pushdata) = <<>>
    THEN [raised |-> "", val |-> Data(<<Lit(OP_0)>>)]
    ELSE IF /\ Blob_len(pushdata) = <<1>>
            /\ 1 <= Blob_at(pushdata, 1).b
            /\ Blob_at(pushdata, 1).b <= 16
    THEN [raised |-> "", val |-> Data(<<Lit(OP_1 + Blob_at(pushdata, 1).b - 1)>>)]
    ELSE IF Blob_len(pushdata) = <<1>> /\ Blob_at(pushdata, 1).b = 129
    THEN [raised |-> "", val |-> Data(<<Lit(OP_1NEGATE)>>)]
    ELSE IF ~minimal_push /\ Blob_len(pushdata) = <<>>
    THEN [raised |-> "AssertionError", val |-> Data(<<>>)]
    ELSE IF get_pushdata_code_raises(Blob_len(pushdata))
    THEN [raised |-> "ValueError", val |-> Data(<<>>)]
    ELSE [raised |-> "",
          val |-> Blob_prepend(get_pushdata_code(Blob_len(pushdata)), pushdata)]

\* [raised, val]: val is the encoding when raised = ""
encode_pushdata(pushdata, minimal_push) ==
    IF minimal_push /\ Blob_len(pushdata) = <<>>
    THEN [raised |-> "", val |-> Data(<<Lit(OP_0)>>)]
    ELSE IF /\ minimal_push
            /\ Blob_len(pushdata) = <<1>>
            /\ 1 <= Blob_at(pushdata, 1).b
            /\ Blob_at(pushdata, 1).b <= 16
    THEN [raised |-> "", val |-> Data(<<Lit(OP_1 + Blob_at(pushdata, 1).b - 1)>>)]
    ELSE IF minimal_push /\ Blob_len(pushdata) = <<1>> /\ Blob_at(pushdata, 1).b = 129
    THEN [raised |-> "", val |-> Data(<<Lit(OP_1NEGATE)>>)]
    ELSE IF ~minimal_push /\ Blob_len(pushdata) = <<>>
    THEN [raised |-> "AssertionError", val |-> Data(<<>>)]
    ELSE IF get_pushdata_code_raises(Blob_len(pushdata))
    THEN [raised |-> "ValueError", val |-> Data(<<>>)]
    ELSE [raised |-> "",
          val |-> Blob_prepend(get_pushdata_code(Blob_len(pushdata)), pushdata)]

\* the order of secp256k1, 0xfffffffffffffffffffffffffffffffebaaedce6af48a03bbfd25e8cd0364141,
\* least significant digit first
curve_n ==
    <<65, 65, 54, 208, 140, 94, 210, 191,
       59, 160, 72, 175, 230, 220, 174, 186,
       254, 255, 255, 255, 255, 255, 255, 255,
       255, 255, 255, 255, 255, 255, 255, 255>>

NUMBER_BYTE_LENGTH == 32

RECURSIVE lstrip_zero(_)
lstrip_zero(octets) ==
    IF octets # <<>> /\ Head(octets).b = 0 THEN lstrip_zero(Tail(octets)) ELSE octets

\* num.to_bytes(NUMBER_BYTE_LENGTH, 'big').lstrip(b'\x00')
number_bytes(num) == lstrip_zero(Reverse(num_to_bytes(num, NUMBER_BYTE_LENGTH)))

\* if octets[0] & 0x80: octets = b'\x00' + octets
pad_high_bit(octets) == IF octets[1].b >= 128 THEN <<Lit(0)>> \o octets ELSE octets

\* a low-S rule that is never applied
low_s_never(s) == s

\* if s > curve.n // 2: s = curve.n - s
low_s(s) == IF ~LessEq(s, FloorDiv2(curve_n)) THEN Sub(curve_n, s) ELSE s

\* the exception serialize_ecdsa_der ends with, "" when it returns: a number
\* that does not fit 32 octets, or is negative, cannot be converted, and
\* octets[0] of a zero has nothing to index
serialize_ecdsa_der_raises(r, s) ==
    IF num_to_bytes_raises(r, NUMBER_BYTE_LENGTH) THEN "OverflowError"
    ELSE IF r = <<>> THEN "IndexError"
    ELSE IF ~LessEq(s, FloorDiv2(curve_n)) /\ ~LessEq(s, curve_n) THEN "OverflowError"
    ELSE IF low_s(s) = <<>> THEN "IndexError"
    ELSE ""

serialize_ecdsa_der(r, s) ==
    Eval(pad_high_bit(number_bytes(r)), LAMBDA r_bytes :
    Eval(pad_high_bit(number_bytes(low_s(s))), LAMBDA s_bytes :
    Eval(<<Lit(2), Lit(Len(r_bytes))>> \o r_bytes
         \o <<Lit(2), Lit(Len(s_bytes))>> \o s_bytes, LAMBDA serialized :
    <<Lit(48), Lit(Len(serialized))>> \o serialized)))

DerFail == [ok |-> FALSE, r |-> <<>>, s |-> <<>>]

\* signature[-s_len:]
last_octets(signature, s_len) ==
    IF s_len = 0 \/ s_len >= Len(signature) THEN signature
    ELSE SubSeq(signature, Len(signature) - s_len + 1, Len(signature))

\* deserialize_ecdsa_der taking any octet for the tag of s
deserialize_ecdsa_der_unchecked_s_tag(signature) ==
    IF Len(signature) < 1 \/ signature[1].b # 48 THEN DerFail
    ELSE IF Len(signature) < 2 \/ signature[2].b # Len(signature) - 2 THEN DerFail
    ELSE IF Len(signature) < 3 \/ signature[3].b # 2 THEN DerFail
    ELSE IF Len(signature) < 4 THEN DerFail
    ELSE Eval(signature[4].b, LAMBDA r_len :
         IF Len(signature) < 5 + r_len THEN DerFail
         ELSE IF Len(signature) < 6 + r_len THEN DerFail
         ELSE [ok |-> TRUE,
               r |-> int_from_bytes_big(SubSeq(signature, 5, Min(4 + r_len, Len(signature)))),
               s |-> int_from_bytes_big(last_octets(signature, signature[6 + r_len].b))])

\* signature[i] of the source is signature[i + 1] here; an index past the end
\* and a failed assert both end in ValueError (ok = FALSE)
deserialize_ecdsa_der(signature) ==
    IF Len(signature) < 1 \/ signature[1].b # 48 THEN DerFail
    ELSE IF Len(signature) < 2 \/ signature[2].b # Len(signature) - 2 THEN DerFail
    ELSE IF Len(signature) < 3 \/ signature[3].b # 2 THEN DerFail
    ELSE IF Len(signature) < 4 THEN DerFail
    ELSE Eval(signature[4].b, LAMBDA r_len :
         IF Len(signature) < 5 + r_len \/ signature[5 + r_len].b # 2 THEN DerFail
         ELSE IF Len(signature) < 6 + r_len THEN DerFail
         ELSE [ok |-> TRUE,
               r |-> int_from_bytes_big(SubSeq(signature, 5, Min(4 + r_len, Len(signature)))),
               s |-> int_from_bytes_big(last_octets(signature, signature[6 + r_len].b))])

-----------------------------------------------------------------------------
(* SpecCodec: each codec function applied to an argument drawn at the      *)
(* start.  An argument and a result are records named after their kind.    *)

Pow2_32 == <<0, 0, 0, 0, 1>>
Pow2_64 == <<0, 0, 0, 0, 0, 0, 0, 0, 1>>

VarintNums ==
    { Digits(n) : n \in {0, 1, 2, 251, 252, 253, 254, 255, 256, 257,
                         65534, 65535, 65536, 65537, 16777216, 2147483647} }
    \cup { <<254, 255, 255, 255>>, U32Max, Pow2_32, <<1, 0, 0, 0, 1>>,
           <<255, 255, 255, 255, 255, 255, 255, 127>>,
           <<254, 255, 255, 255, 255, 255, 255, 255>>, U64Max, Pow2_64 }

\* a marker octet followed by width octets, by fewer, or by one more
VarintStreams ==
    { Bytes(<<m>>) : m \in {0, 1, 252} }
    \cup { Bytes(<<>>), Bytes(<<253>>), Bytes(<<253, 1>>), Bytes(<<254>>),
           Bytes(<<254, 1, 2, 3>>), Bytes(<<255>>), Bytes(<<255, 1, 2, 3, 4, 5, 6, 7>>),
           Bytes(<<252, 9>>), Bytes(<<253, 0, 0, 9>>) }
    \cup { <<Lit(253)>> \o [k \in 1..2 |-> Lit(f[k])] : f \in [1..2 -> {0, 1, 252, 253, 255}] }
    \cup { <<Lit(254)>> \o [k \in 1..4 |-> Lit(f[k])] : f \in [1..4 -> {0, 1, 255}] }
    \cup { <<Lit(255)>> \o [k \in 1..8 |-> Lit(f[k])] : f \in [1..8 -> {0, 255}] }

PushdataValues ==
    { Data(Bytes(ns)) : ns \in { <<>>, <<0>>, <<1>>, <<2>>, <<16>>, <<17>>, <<128>>, <<129>>,
                                 <<130>>, <<255>>, <<1, 2>>, <<129, 0>>, <<0, 0>> } }
    \cup { Data([k \in 1..n |-> Lit(k)]) : n \in {74, 75, 76, 77} }
    \cup { Blob(<<>>, Lit(171), count) :
              count \in { Digits(255), Digits(256), Digits(257), Digits(65535),
                          Digits(65536), Digits(16777216), <<254, 255, 255, 255>>,
                          U32Max, Pow2_32, <<1, 0, 0, 0, 1>> } }
    \cup { Blob(<<>>, Lit(5), <<1>>), Blob(<<>>, Lit(129), <<1>>),
           Blob(<<Lit(7)>>, Lit(0), Digits(254)), Blob(<<Lit(7)>>, Lit(0), Digits(255)),
           Blob(<<Lit(1)>>, Lit(2), U32Max) }

Pow2_255 == [k \in 1..32 |-> IF k = 32 THEN 128 ELSE 0]

SignatureNumbers ==
    { Digits(n) : n \in {0, 1, 127, 128, 255, 256, 32768} }
    \cup { FloorDiv2(curve_n), AddSmall(FloorDiv2(curve_n), 1), Sub(curve_n, <<1>>),
           Sub(curve_n, <<128>>), curve_n, Pow2_255, Sub(Pow2_255, <<1>>) }

DerBases ==
    { serialize_ecdsa_der(pair[1], pair[2]) :
        pair \in { <<Digits(1), Digits(1)>>, <<Digits(128), Digits(1)>>,
                   <<Digits(1), Digits(128)>>, <<Digits(256), Digits(255)>> } }

\* the first k octets, with the declared length as it was or set to k - 2
DerTruncations ==
    UNION { { SubSeq(base, 1, k) : k \in 0..Len(base) }
            \cup { [SubSeq(base, 1, k) EXCEPT ![2] = Lit(k - 2)] : k \in 2..Len(base) } :
            base \in DerBases }

DerSubstitutions ==
    UNION { { [base EXCEPT ![p] = Lit(v)] :
                p \in 1..Len(base), v \in {0, 1, 2, 3, 48, Len(base) - 2, Len(base) - 3} } :
            base \in DerBases }

\* a declared s length of 0, of more than is there, and octets after the s field
DerLoose ==
    { Bytes(<<48, 4, 2, 0, 2, 0>>), Bytes(<<48, 5, 2, 1, 1, 2, 1>>),
      Bytes(<<48, 6, 2, 1, 1, 2, 9, 1>>), Bytes(<<48, 7, 2, 1, 1, 2, 1, 1, 9>>) }

DerInputs == DerTruncations \cup DerSubstitutions \cup DerLoose

InitCodec ==
    /\ tx = Transaction(<<>>, <<>>, VERSION, LOCKTIME, FEE_RATE)
    /\ op = "init"
    /\ \/ \E num \in VarintNums : arg = [num |-> num]
       \/ \E stream \in VarintStreams : arg = [stream |-> stream]
       \/ \E pushdata \in PushdataValues, minimal_push \in BOOLEAN :
             arg = [pushdata |-> pushdata, minimal_push |-> minimal_push]
       \/ \E r \in SignatureNumbers, s \in SignatureNumbers : arg = [r |-> r, s |-> s]
       \/ \E der \in DerInputs : arg = [der |-> der]
    /\ ret = <<>>
    /\ raised = ""
    /\ budget = 0
    /\ opaque_estimate = "zero"

UnsignedToVarint ==
    /\ op = "init"
    /\ "num" \in DOMAIN arg
    /\ op' = "unsigned_to_varint"
    /\ raised' = IF unsigned_to_varint_raises(arg.num) THEN "OverflowError" ELSE ""
    /\ ret' = IF unsigned_to_varint_raises(arg.num) THEN <<>>
              ELSE [varint |-> unsigned_to_varint(arg.num)]
    /\ UNCHANGED <<tx, arg, budget, opaque_estimate>>

ReadVarint ==
    /\ op = "init"
    /\ "stream" \in DOMAIN arg
    /\ op' = "read_varint"
    /\ raised' = IF read_varint(TransactionBytesIO(arg.stream)).ok THEN ""
                 ELSE "AssertionError"
    /\ ret' = IF read_varint(TransactionBytesIO(arg.stream)).ok
              THEN [read_varint |-> read_varint(TransactionBytesIO(arg.stream)).val]
              ELSE <<>>
    /\ UNCHANGED <<tx, arg, budget, opaque_estimate>>

ReadVarIntNum ==
    /\ op = "init"
    /\ "stream" \in DOMAIN arg
    /\ op' = "read_var_int_num"
    /\ raised' = ""
    /\ ret' = [read_var_int_num |-> Reader_read_var_int_num(Reader(arg.stream)).val,
               none |-> Reader_read_var_int_num(Reader(arg.stream)).none]
    /\ UNCHANGED <<tx, arg, budget, opaque_estimate>>

EncodePushdata ==
    /\ op = "init"
    /\ "pushdata" \in DOMAIN arg
    /\ op' = "encode_pushdata"
    /\ raised' = encode_pushdata(arg.pushdata, arg.minimal_push).raised
    /\ ret' = IF encode_pushdata(arg.pushdata, arg.minimal_push).raised # "" THEN <<>>
              ELSE [encode_pushdata |-> encode_pushdata(arg.pushdata, arg.minimal_push).val]
    /\ UNCHANGED <<tx, arg, budget, opaque_estimate>>

SerializeEcdsaDer ==
    /\ op = "init"
    /\ "r" \in DOMAIN arg
    /\ op' = "serialize_ecdsa_der"
    /\ raised' = serialize_ecdsa_der_raises(arg.r, arg.s)
    /\ ret' = IF serialize_ecdsa_der_raises(arg.r, arg.s) # "" THEN <<>>
              ELSE [der |-> serialize_ecdsa_der(arg.r, arg.s)]
    /\ UNCHANGED <<tx, arg, budget, opaque_estimate>>

DeserializeEcdsaDer ==
    /\ op = "init"
    /\ "der" \in DOMAIN arg
    /\ op' = "deserialize_ecdsa_der"
    /\ raised' = IF deserialize_ecdsa_der(arg.der).ok THEN "" ELSE "ValueError"
    /\ ret' = IF deserialize_ecdsa_der(arg.der).ok
              THEN [r |-> deserialize_ecdsa_der(arg.der).r,
                    s |-> deserialize_ecdsa_der(arg.der).s]
              ELSE <<>>
    /\ UNCHANGED <<tx, arg, budget, opaque_estimate>>

NextCodec ==
    \/ UnsignedToVarint
    \/ ReadVarint
    \/ ReadVarIntNum
    \/ EncodePushdata
    \/ SerializeEcdsaDer
    \/ DeserializeEcdsaDer

SpecCodec == InitCodec /\ [][NextCodec]_vars

\* the number k of digits of num, as the thresholds of the varint forms: num
\* <= 0xffff iff k <= 2, num <= 0xffffffff iff k <= 4, num <= 2^64 - 1 iff k <= 8
VarintLength(num) ==
    IF num = <<>> \/ (Len(num) = 1 /\ num[1] <= 252) THEN 1
    ELSE IF Len(num) <= 2 THEN 3
    ELSE IF Len(num) <= 4 THEN 5
    ELSE 9

\* C15: for n in 0..2^64-1, unsigned_to_varint(n) has length 1, 3, 5 or 9
\* according to the thresholds 0xfc, 0xffff, 0xffffffff, read_varint of it
\* returns n having read all of it, and writing what was read gives the same
\* octets again.
C15_VarintRoundTrip ==
    (op = "unsigned_to_varint" /\ Len(arg.num) <= 8) =>
        /\ raised = ""
        /\ Len(ret.varint) = VarintLength(arg.num)
        /\ LET read == read_varint(TransactionBytesIO(ret.varint))
           IN  /\ read.ok
               /\ read.val = arg.num
               /\ read.stream.pos = Len(ret.varint)
               /\ ~unsigned_to_varint_raises(read.val)
               /\ unsigned_to_varint(read.val) = ret.varint

\* 0xffff has been written in three octets and 0x10000 in five
C15_Witness ==
    /\ op = "unsigned_to_varint"
    /\ \/ arg.num = <<255, 255>> /\ ret.varint = Bytes(<<253, 255, 255>>)
       \/ arg.num = <<0, 0, 1>> /\ ret.varint = Bytes(<<254, 0, 0, 1, 0>>)

C15_WitnessNineOctets ==
    /\ op = "unsigned_to_varint"
    /\ arg.num = Pow2_32
    /\ ret.varint = Bytes(<<255, 0, 0, 0, 0, 1, 0, 0, 0>>)

FormWidth(marker) == IF marker = 253 THEN 2 ELSE IF marker = 254 THEN 4 ELSE 8

\* a stream that holds one of the three marked forms in full
MarkedForm(stream) ==
    /\ stream # <<>>
    /\ stream[1].b >= 253
    /\ Len(stream) >= 1 + FormWidth(stream[1].b)

Payload(stream) == SubSeq(stream, 2, 1 + FormWidth(stream[1].b))

\* C16: both varint readers accept the four encoded forms whatever the
\* value: a single octet up to 0xfc is its own value, and a marker 0xfd,
\* 0xfe or 0xff followed by 2, 4 or 8 octets is read as the little-endian
\* value of those octets also when it would fit a shorter form; 0xfd 0x00
\* 0x00 is read as 0, as are the 0xfe and 0xff forms of 0.
C16_ReadersAcceptAllForms ==
    (op \in {"read_varint", "read_var_int_num"}) =>
        LET stream == arg.stream
            val == IF op = "read_varint" THEN ret.read_varint ELSE ret.read_var_int_num
        IN  /\ (stream # <<>> /\ stream[1].b <= 252) =>
                  /\ raised = ""
                  /\ (op = "read_var_int_num") => ~ret.none
                  /\ val = Digits(stream[1].b)
            /\ MarkedForm(stream) =>
                  /\ raised = ""
                  /\ (op = "read_var_int_num") => ~ret.none
                  /\ Len(val) <= FormWidth(stream[1].b)
                  /\ num_to_bytes(val, FormWidth(stream[1].b)) = Payload(stream)
                  /\ (\A k \in 1..Len(Payload(stream)) : Payload(stream)[k].b = 0)
                        => val = <<>>

\* read_varint has read the three-octet form of 0
C16_Witness ==
    /\ op = "read_varint"
    /\ arg.stream = Bytes(<<253, 0, 0>>)
    /\ raised = ""
    /\ ret.read_varint = <<>>

\* read_var_int_num has read the nine-octet form of 0xff
C16_WitnessReader ==
    /\ op = "read_var_int_num"
    /\ arg.stream = Bytes(<<255, 255, 0, 0, 0, 0, 0, 0, 0>>)
    /\ ~ret.none
    /\ ret.read_var_int_num = <<255>>

LittleEndian(num, width) == [k \in 1..width |-> Lit(IF k <= Len(num) THEN num[k] ELSE 0)]

\* the length prefix of a push of length octets, length <= 0xffffffff
PushPrefix(length) ==
    IF length = <<>> \/ (Len(length) = 1 /\ length[1] <= 75) THEN LittleEndian(length, 1)
    ELSE IF Len(length) = 1 THEN <<Lit(76)>> \o LittleEndian(length, 1)
    ELSE IF Len(length) = 2 THEN <<Lit(77)>> \o LittleEndian(length, 2)
    ELSE <<Lit(78)>> \o LittleEndian(length, 4)

\* C17: encode_pushdata in minimal mode returns OP_0 (0x00) for empty data,
\* OP_1..OP_16 (0x51..0x60) for a single octet 1..16, OP_1NEGATE (0x4f) for
\* the single octet 0x81, and otherwise the data behind a raw length octet
\* (length <= 0x4b), OP_PUSHDATA1 and one length octet (<= 0xff),
\* OP_PUSHDATA2 and two (<= 0xffff) or OP_PUSHDATA4 and four (<= 0xffffffff);
\* a longer data fails.
C17_MinimalPush ==
    (op = "encode_pushdata" /\ arg.minimal_push) =>
        LET data == arg.pushdata
            length == Blob_len(data)
        IN  IF length = <<>>
            THEN raised = "" /\ ret.encode_pushdata = Data(Bytes(<<0>>))
            ELSE IF length = <<1>> /\ Blob_at(data, 1).b \in 1..16
            THEN raised = "" /\ ret.encode_pushdata = Data(Bytes(<<80 + Blob_at(data, 1).b>>))
            ELSE IF length = <<1>> /\ Blob_at(data, 1).b = 129
            THEN raised = "" /\ ret.encode_pushdata = Data(Bytes(<<79>>))
            ELSE IF Len(length) > 4
            THEN raised = "ValueError" /\ ret = <<>>
            ELSE /\ raised = ""
                 /\ ret.encode_pushdata = [data EXCEPT !.prefix = PushPrefix(length) \o @]

\* 75 octets went behind a raw length octet and 0x10000 behind OP_PUSHDATA4
C17_Witness ==
    /\ op = "encode_pushdata"
    /\ arg.minimal_push
    /\ raised = ""
    /\ \/ /\ Blob_len(arg.pushdata) = <<75>>
          /\ Len(ret.encode_pushdata.prefix) = 76
          /\ ret.encode_pushdata.prefix[1] = Lit(75)
       \/ /\ Blob_len(arg.pushdata) = <<0, 0, 1>>
          /\ ret.encode_pushdata.prefix = Bytes(<<78, 0, 0, 1, 0>>)

C17_WitnessTooLong ==
    /\ op = "encode_pushdata"
    /\ arg.minimal_push
    /\ raised = "ValueError"
    /\ Blob_len(arg.pushdata) = Pow2_32

\* C18: encode_pushdata with minimal_push=False emits a length-prefixed push
\* for every data of length 0..0xffffffff, the empty data and the single
\* octets 1..16 and 0x81 included: the code of the length, then the data.
C18_NonMinimalPushAlwaysPrefixed ==
    (op = "encode_pushdata" /\ ~arg.minimal_push /\ Len(Blob_len(arg.pushdata)) <= 4) =>
        /\ raised = ""
        /\ ret.encode_pushdata =
              [arg.pushdata EXCEPT !.prefix = PushPrefix(Blob_len(arg.pushdata)) \o @]

\* C18 (amended): encode_pushdata with minimal_push=False emits the code of
\* the length and then the data for every data of length 1..0xffffffff, the
\* single octets 1..16 and 0x81 included, and refuses the empty data with
\* the assertion 'empty pushdata'.
C18_NonMinimalPushOfNonEmpty ==
    (op = "encode_pushdata" /\ ~arg.minimal_push /\ Len(Blob_len(arg.pushdata)) <= 4) =>
        IF Blob_len(arg.pushdata) = <<>>
        THEN raised = "AssertionError" /\ ret = <<>>
        ELSE /\ raised = ""
             /\ ret.encode_pushdata =
                   [arg.pushdata EXCEPT !.prefix = PushPrefix(Blob_len(arg.pushdata)) \o @]

\* the single octet 0x01 has been pushed as 0x01 0x01
C18_Witness ==
    /\ op = "encode_pushdata"
    /\ ~arg.minimal_push
    /\ arg.pushdata = Data(Bytes(<<1>>))
    /\ raised = ""
    /\ ret.encode_pushdata = Data(Bytes(<<1, 1>>))

\* the empty data has been refused
C18_WitnessEmpty ==
    /\ op = "encode_pushdata"
    /\ ~arg.minimal_push
    /\ arg.pushdata = Data(<<>>)
    /\ raised = "AssertionError"

\* n - 1 over 2, n the curve order: 0x7fffffffffffffffffffffffffffffff5d576e7357a4501ddfe92f46681b20a0
HalfOrder ==
    <<160, 32, 27, 104, 70, 47, 233, 223,
      29, 80, 164, 87, 115, 110, 87, 93,
      255, 255, 255, 255, 255, 255, 255, 255,
      255, 255, 255, 255, 255, 255, 255, 127>>

RECURSIVE AddDigits(_, _, _, _)
AddDigits(a, b, k, carry) ==
    IF k > Len(a) /\ k > Len(b)
    THEN IF carry = 0 THEN <<>> ELSE <<carry>>
    ELSE LET sum == (IF k <= Len(a) THEN a[k] ELSE 0)
                    + (IF k <= Len(b) THEN b[k] ELSE 0) + carry
         IN  <<sum % 256>> \o AddDigits(a, b, k + 1, sum \div 256)

\* 1 <= x < n
InOrder(x) == x # <<>> /\ LessEq(x, curve_n) /\ x # curve_n

\* C19: for 1 <= r, s < n, deserialize_ecdsa_der(serialize_ecdsa_der((r, s)))
\* is (r, min(s, n - s)): the pair itself when s <= n/2, and otherwise r with
\* the s' <= n/2 for which s' + s = n.
C19_DerLowSRoundTrip ==
    (op = "serialize_ecdsa_der" /\ InOrder(arg.r) /\ InOrder(arg.s)) =>
        /\ raised = ""
        /\ LET decoded == deserialize_ecdsa_der(ret.der)
           IN  /\ decoded.ok
               /\ decoded.r = arg.r
               /\ LessEq(decoded.s, HalfOrder)
               /\ IF LessEq(arg.s, HalfOrder)
                  THEN decoded.s = arg.s
                  ELSE AddDigits(decoded.s, arg.s, 1, 0) = curve_n

\* (2^255, n - 1) has been encoded: r behind a zero octet, s as 1
C19_Witness ==
    /\ op = "serialize_ecdsa_der"
    /\ arg.r = Pow2_255
    /\ arg.s = Sub(curve_n, <<1>>)
    /\ raised = ""
    /\ Len(ret.der) = 40
    /\ SubSeq(ret.der, 1, 6) = Bytes(<<48, 38, 2, 33, 0, 128>>)
    /\ SubSeq(ret.der, 38, 40) = Bytes(<<2, 1, 1>>)

\* the tag, the declared length, the tag of r, the length of r, and the tag
\* and the length of s where the length of r puts them: one is not there or
\* not as it must be
DerMalformed(signature) ==
    \/ Len(signature) < 1
    \/ signature[1].b # 48
    \/ Len(signature) < 2
    \/ signature[2].b # Len(signature) - 2
    \/ Len(signature) < 3
    \/ signature[3].b # 2
    \/ Len(signature) < 4
    \/ Len(signature) < 4 + signature[4].b + 2
    \/ signature[4 + signature[4].b + 1].b # 2

\* the length of r or the length of s says more octets than follow it
DerFieldCut(signature) ==
    /\ Len(signature) >= 4
    /\ \/ Len(signature) < 4 + signature[4].b
       \/ /\ Len(signature) >= 4 + signature[4].b + 2
          /\ Len(signature) < 4 + signature[4].b + 2 + signature[4 + signature[4].b + 2].b

\* C20: deserialize_ecdsa_der fails with the invalid-encoding error and
\* returns no (r, s) for every input whose first octet is not 0x30, whose
\* second octet is not the total length minus 2, or whose r or s field does
\* not start with the tag 0x02, and for every input too short to hold these
\* fields.
C20_DerInvalidFails ==
    (op = "deserialize_ecdsa_der" /\ (DerMalformed(arg.der) \/ DerFieldCut(arg.der))) =>
        raised = "ValueError" /\ ret = <<>>

\* the part of C20 about the octets the decoder looks at: an input in which
\* the tag, the declared length, the tag of r, the length of r, the tag of s
\* or the length of s is missing or wrong is refused
C20_DerMalformedFails ==
    (op = "deserialize_ecdsa_der" /\ DerMalformed(arg.der)) =>
        raised = "ValueError" /\ ret = <<>>

\* an input right in all but the tag of s has been refused
C20_Witness ==
    /\ op = "deserialize_ecdsa_der"
    /\ arg.der = Bytes(<<48, 6, 2, 1, 1, 3, 1, 1>>)
    /\ raised = "ValueError"

\* an input cut after the tag of s, with its declared length right, has been
\* refused
C20_WitnessTooShort ==
    /\ op = "deserialize_ecdsa_der"
    /\ arg.der = Bytes(<<48, 4, 2, 1, 1, 2>>)
    /\ raised = "ValueError"

-----------------------------------------------------------------------------
(* Recoverable signatures (src/bsv/utils/ecdsa.py): the 65-octet form and  *)
(* its base64 string.                                                      *)

\* num.to_bytes(byte_length, 'big')
num_to_bytes_big(num, length) == Reverse(num_to_bytes(num, length))

RecFail(message) == [raised |-> message, r |-> <<>>, s |-> <<>>, rec_id |-> 0]

InvalidLength == "AssertionError: invalid length of recoverable ECDSA signature"

InvalidRecoveryId == "AssertionError: invalid recovery id"

InvalidPrefix == "AssertionError: invalid recoverable ECDSA signature prefix"

\* deserialize_ecdsa_recoverable taking any last octet for the recovery id
deserialize_ecdsa_recoverable_any_rec_id(signature) ==
    IF Len(signature) # 65 THEN RecFail(InvalidLength)
    ELSE [raised |-> "",
          r |-> int_from_bytes_big(SubSeq(signature, 1, NUMBER_BYTE_LENGTH)),
          s |-> int_from_bytes_big(SubSeq(signature, NUMBER_BYTE_LENGTH + 1,
                                          Len(signature) - 1)),
          rec_id |-> signature[Len(signature)].b]

\* [raised, r, s, rec_id]: the triple when raised = ""
deserialize_ecdsa_recoverable(signature) ==
    IF Len(signature) # 65 THEN RecFail(InvalidLength)
    ELSE IF ~(0 <= signature[Len(signature)].b /\ signature[Len(signature)].b <= 3)
    THEN RecFail(InvalidRecoveryId)
    ELSE [raised |-> "",
          r |-> int_from_bytes_big(SubSeq(signature, 1, NUMBER_BYTE_LENGTH)),
          s |-> int_from_bytes_big(SubSeq(signature, NUMBER_BYTE_LENGTH + 1,
                                          Len(signature) - 1)),
          rec_id |-> signature[Len(signature)].b]

\* the exception serialize_ecdsa_recoverable ends with, "" when it returns
serialize_ecdsa_recoverable_raises(r, s, rec_id) ==
    IF ~(0 <= rec_id /\ rec_id < 4) THEN InvalidRecoveryId
    ELSE IF num_to_bytes_raises(r, NUMBER_BYTE_LENGTH) THEN "OverflowError"
    ELSE IF num_to_bytes_raises(s, NUMBER_BYTE_LENGTH) THEN "OverflowError"
    ELSE ""

serialize_ecdsa_recoverable(r, s, rec_id) ==
    num_to_bytes_big(r, NUMBER_BYTE_LENGTH)
    \o num_to_bytes_big(s, NUMBER_BYTE_LENGTH)
    \o num_to_bytes_big(Digits(rec_id), 1)

\* A str of base64 is the sequence of its characters: 0..63 for the
\* character of the alphabet with that value, B64_PAD for '=', B64_OTHER
\* for a character outside the alphabet.
B64_PAD == 64

B64_OTHER == 65

\* base64.b64encode: three octets make four characters, the last group is
\* filled with '='
b64encode(octets) ==
    LET octet(i) == IF i <= Len(octets) THEN octets[i].b ELSE 0
    IN  [c \in 1..(4 * ((Len(octets) + 2) \div 3)) |->
           LET first == 3 * ((c - 1) \div 4) + 1
           IN  IF (c - 1) % 4 = 0 THEN octet(first) \div 4
               ELSE IF (c - 1) % 4 = 1
               THEN (octet(first) % 4) * 16 + octet(first + 1) \div 16
               ELSE IF (c - 1) % 4 = 2
               THEN IF first + 1 > Len(octets) THEN B64_PAD
                    ELSE (octet(first + 1) % 16) * 4 + octet(first + 2) \div 64
               ELSE IF first + 2 > Len(octets) THEN B64_PAD
                    ELSE octet(first + 2) % 64]

\* quad_pos of binascii.a2b_base64 when it comes to chars[k]: the characters
\* of the alphabet before it, modulo 4
B64QuadPos(chars, k) == Cardinality({j \in 1..(k - 1) : chars[j] < B64_PAD}) % 4

\* pads when it comes to chars[k]: the '=' since the last character of the
\* alphabet
B64Pads(chars, k) ==
    Cardinality({j \in 1..(k - 1) :
                    /\ chars[j] = B64_PAD
                    /\ \A i \in (j + 1)..(k - 1) : chars[i] >= B64_PAD})

\* the positions of an '=' that completes a group: the first ends the decoding
B64Stops(chars) ==
    {k \in 1..Len(chars) :
        /\ chars[k] = B64_PAD
        /\ B64QuadPos(chars, k) >= 2
        /\ B64QuadPos(chars, k) + B64Pads(chars, k) + 1 >= 4}

\* the characters of the alphabet that are decoded
B64Data(chars) ==
    IF B64Stops(chars) = {} THEN SelectSeq(chars, LAMBDA ch : ch < B64_PAD)
    ELSE SelectSeq(SubSeq(chars, 1, (CHOOSE k \in B64Stops(chars) :
                                        \A other \in B64Stops(chars) : k <= other) - 1),
                   LAMBDA ch : ch < B64_PAD)

\* base64.b64decode(s) with validate=False (binascii.a2b_base64): characters
\* outside the alphabet are skipped, an '=' that completes a group ends the
\* decoding, and a group left incomplete at the end is an error
b64decode(chars) ==
    Eval(B64Data(chars), LAMBDA data :
        IF B64Stops(chars) = {} /\ Len(data) % 4 # 0
        THEN [raised |-> "binascii.Error", val |-> <<>>]
        ELSE [raised |-> "",
              val |-> [i \in 1..((Len(data) * 6) \div 8) |->
                         LET first == 4 * ((i - 1) \div 3) + 1
                         IN  Lit(IF (i - 1) % 3 = 0
                                 THEN data[first] * 4 + data[first + 1] \div 16
                                 ELSE IF (i - 1) % 3 = 1
                                 THEN (data[first + 1] % 16) * 16 + data[first + 2] \div 4
                                 ELSE (data[first + 2] % 4) * 64 + data[first + 3])]])

\* stringify_ecdsa_recoverable with the 4 of a compressed key left out
stringify_ecdsa_recoverable_without_compressed(signature, compressed) ==
    Eval(deserialize_ecdsa_recoverable(signature), LAMBDA triple :
        IF triple.raised # "" THEN [raised |-> triple.raised, val |-> <<>>]
        ELSE [raised |-> "",
              val |-> b64encode(num_to_bytes_big(Digits(27 + triple.rec_id), 1)
                                \o SubSeq(signature, 1, Len(signature) - 1))])

\* [raised, val]: val is the string when raised = ""
stringify_ecdsa_recoverable(signature, compressed) ==
    Eval(deserialize_ecdsa_recoverable(signature), LAMBDA triple :
        IF triple.raised # "" THEN [raised |-> triple.raised, val |-> <<>>]
        ELSE [raised |-> "",
              val |-> b64encode(num_to_bytes_big(
                                    Digits(27 + triple.rec_id
                                           + (IF compressed THEN 4 ELSE 0)), 1)
                                \o SubSeq(signature, 1, Len(signature) - 1))])

UnstringifyFail(message) == [raised |-> message, val |-> <<>>, compressed |-> FALSE]

\* [raised, val, compressed]: the pair (val, compressed) when raised = ""
unstringify_ecdsa_recoverable(signature) ==
    Eval(b64decode(signature), LAMBDA decoded :
        IF decoded.raised # "" THEN UnstringifyFail(decoded.raised)
        ELSE Eval(decoded.val, LAMBDA serialized :
            IF Len(serialized) # 65 THEN UnstringifyFail(InvalidLength)
            ELSE IF ~(27 <= serialized[1].b /\ serialized[1].b < 35)
            THEN UnstringifyFail(InvalidPrefix)
            ELSE [raised |-> "",
                  val |-> Tail(serialized)
                          \o num_to_bytes_big(
                                 Digits((IF serialized[1].b >= 31
                                         THEN serialized[1].b - 4
                                         ELSE serialized[1].b) - 27), 1),
                  compressed |-> serialized[1].b >= 31]))

-----------------------------------------------------------------------------
(* The recoverable codecs, each applied to an argument drawn in Init.      *)

Pow2_256 == [k \in 1..33 |-> IF k = 33 THEN 1 ELSE 0]

RecoverableNumbers ==
    { <<>>, <<1>>, <<255>>, <<0, 1>>, Pow2_255, curve_n,
      Sub(Pow2_256, <<1>>), Pow2_256 }

RecoveryIds == {-1, 0, 1, 2, 3, 4}

\* 65 octets: r, s and a last octet
RecoverableBodies ==
    { num_to_bytes_big(pair[1], NUMBER_BYTE_LENGTH)
      \o num_to_bytes_big(pair[2], NUMBER_BYTE_LENGTH) :
        pair \in { <<<<1>>, <<2>>>>, <<Pow2_255, curve_n>>,
                   <<Sub(Pow2_256, <<1>>), <<>>>>, <<<<>>, <<>>>> } }

RecoverableSignatures ==
    { body \o <<Lit(last)>> : body \in RecoverableBodies, last \in {0, 1, 2, 3, 4, 27, 255} }
    \cup { SubSeq(body, 1, k) : body \in RecoverableBodies, k \in {0, 1, 32, 63, 64} }
    \cup { body \o <<Lit(1), Lit(last)>> : body \in RecoverableBodies, last \in {0, 3} }

\* the strings of 64, 65 and 66 octets with every kind of first octet, then
\* strings cut short, with a character outside the alphabet, and padded
\* before the end
RecoverableStrings ==
    { b64encode(<<Lit(prefix)>> \o body) :
        body \in RecoverableBodies, prefix \in {0, 26, 27, 28, 30, 31, 32, 34, 35, 255} }
    \cup { b64encode(body) : body \in RecoverableBodies }
    \cup { b64encode(<<Lit(27), Lit(27)>> \o body) : body \in RecoverableBodies }
    \cup { SubSeq(b64encode(<<Lit(31)>> \o body), 1, k) :
             body \in RecoverableBodies, k \in {0, 1, 85, 86, 87} }
    \cup { <<B64_OTHER>> \o b64encode(<<Lit(28)>> \o body) \o <<B64_OTHER, 0>> :
             body \in RecoverableBodies }
    \cup { SubSeq(b64encode(<<Lit(35)>> \o body), 1, 43) \o <<B64_OTHER>>
           \o SubSeq(b64encode(<<Lit(35)>> \o body), 44, 88) :
             body \in RecoverableBodies }
    \cup { <<B64_PAD>> \o b64encode(<<Lit(29)>> \o body) : body \in RecoverableBodies }

InitRecoverable ==
    /\ tx = Transaction(<<>>, <<>>, VERSION, LOCKTIME, FEE_RATE)
    /\ op = "init"
    /\ \/ \E r \in RecoverableNumbers, s \in RecoverableNumbers, rec_id \in RecoveryIds :
             arg = [r |-> r, s |-> s, rec_id |-> rec_id]
       \/ \E signature \in RecoverableSignatures : arg = [signature |-> signature]
       \/ \E signature \in RecoverableSignatures, compressed \in BOOLEAN :
             arg = [signature |-> signature, compressed |-> compressed]
       \/ \E string \in RecoverableStrings : arg = [string |-> string]
    /\ ret = <<>>
    /\ raised = ""
    /\ budget = 0
    /\ opaque_estimate = "zero"

SerializeEcdsaRecoverable ==
    /\ op = "init"
    /\ "rec_id" \in DOMAIN arg
    /\ op' = "serialize_ecdsa_recoverable"
    /\ raised' = serialize_ecdsa_recoverable_raises(arg.r, arg.s, arg.rec_id)
    /\ ret' = IF serialize_ecdsa_recoverable_raises(arg.r, arg.s, arg.rec_id) # "" THEN <<>>
              ELSE [serialized |-> serialize_ecdsa_recoverable(arg.r, arg.s, arg.rec_id)]
    /\ UNCHANGED <<tx, arg, budget, opaque_estimate>>

DeserializeEcdsaRecoverable ==
    /\ op = "init"
    /\ DOMAIN arg = {"signature"}
    /\ op' = "deserialize_ecdsa_recoverable"
    /\ raised' = deserialize_ecdsa_recoverable(arg.signature).raised
    /\ ret' = IF deserialize_ecdsa_recoverable(arg.signature).raised # "" THEN <<>>
              ELSE [r |-> deserialize_ecdsa_recoverable(arg.signature).r,
                    s |-> deserialize_ecdsa_recoverable(arg.signature).s,
                    rec_id |-> deserialize_ecdsa_recoverable(arg.signature).rec_id]
    /\ UNCHANGED <<tx, arg, budget, opaque_estimate>>

StringifyEcdsaRecoverable ==
    /\ op = "init"
    /\ "compressed" \in DOMAIN arg
    /\ op' = "stringify_ecdsa_recoverable"
    /\ raised' = stringify_ecdsa_recoverable(arg.signature, arg.compressed).raised
    /\ ret' = IF stringify_ecdsa_recoverable(arg.signature, arg.compressed).raised # ""
              THEN <<>>
              ELSE [string |-> stringify_ecdsa_recoverable(arg.signature, arg.compressed).val]
    /\ UNCHANGED <<tx, arg, budget, opaque_estimate>>

UnstringifyEcdsaRecoverable ==
    /\ op = "init"
    /\ "string" \in DOMAIN arg
    /\ op' = "unstringify_ecdsa_recoverable"
    /\ raised' = unstringify_ecdsa_recoverable(arg.string).raised
    /\ ret' = IF unstringify_ecdsa_recoverable(arg.string).raised # "" THEN <<>>
              ELSE [signature |-> unstringify_ecdsa_recoverable(arg.string).val,
                    compressed |-> unstringify_ecdsa_recoverable(arg.string).compressed]
    /\ UNCHANGED <<tx, arg, budget, opaque_estimate>>

NextRecoverable ==
    \/ SerializeEcdsaRecoverable
    \/ DeserializeEcdsaRecoverable
    \/ StringifyEcdsaRecoverable
    \/ UnstringifyEcdsaRecoverable

SpecRecoverable == InitRecoverable /\ [][NextRecoverable]_vars

\* r < 2^256
Fits256(num) == Len(num) <= 32

\* the 32 octets of num, most significant first, written without the codec
BigEndian32(num) == [k \in 1..32 |-> Lit(IF 33 - k <= Len(num) THEN num[33 - k] ELSE 0)]

\* C21: serialize_ecdsa_recoverable((r, s, id)) with r, s < 2^256 and id in
\* 0..3 is the 65 octets r (32, big-endian), s (32, big-endian), id, and
\* deserialize_ecdsa_recoverable gives (r, s, id) back from them;
\* deserialize_ecdsa_recoverable fails on every input of another length than
\* 65 and on every 65 octets whose last is outside 0..3.
C21_RecoverableCodec ==
    /\ (op = "serialize_ecdsa_recoverable" /\ Fits256(arg.r) /\ Fits256(arg.s)
        /\ arg.rec_id \in 0..3) =>
          /\ raised = ""
          /\ Len(ret.serialized) = 65
          /\ ret.serialized = BigEndian32(arg.r) \o BigEndian32(arg.s) \o <<Lit(arg.rec_id)>>
          /\ deserialize_ecdsa_recoverable(ret.serialized)
                = [raised |-> "", r |-> arg.r, s |-> arg.s, rec_id |-> arg.rec_id]
    /\ (op = "deserialize_ecdsa_recoverable"
        /\ (Len(arg.signature) # 65 \/ arg.signature[Len(arg.signature)].b \notin 0..3)) =>
          /\ raised # ""
          /\ ret = <<>>

\* (2^256 - 1, n, 3) has been written
C21_Witness ==
    /\ op = "serialize_ecdsa_recoverable"
    /\ arg = [r |-> Sub(Pow2_256, <<1>>), s |-> curve_n, rec_id |-> 3]
    /\ raised = ""
    /\ ret.serialized[1] = Lit(255)
    /\ ret.serialized[64] = Lit(65)
    /\ ret.serialized[65] = Lit(3)

\* 65 octets ending in 4 have been refused, and so have 64 octets
C21_WitnessRefused ==
    /\ op = "deserialize_ecdsa_recoverable"
    /\ raised # ""
    /\ \/ Len(arg.signature) = 65 /\ arg.signature[65] = Lit(4)
       \/ Len(arg.signature) = 64

\* a valid 65-octet recoverable signature
ValidRecoverable(signature) ==
    Len(signature) = 65 /\ signature[65].b \in 0..3

\* C22: for every valid 65-octet recoverable signature and both values of
\* compressed, the string of stringify_ecdsa_recoverable decodes to the
\* prefix octet 27 + recovery id + (4 if compressed else 0) followed by r
\* and s, and unstringify_ecdsa_recoverable gives the signature and
\* compressed back from it; a string of 65 octets whose prefix is outside
\* 27..34 is refused with the invalid-prefix error.
C22_StringifyRoundTrip ==
    /\ (op = "stringify_ecdsa_recoverable" /\ ValidRecoverable(arg.signature)) =>
          /\ raised = ""
          /\ b64decode(ret.string)
                = [raised |-> "",
                   val |-> <<Lit(27 + arg.signature[65].b
                                 + (IF arg.compressed THEN 4 ELSE 0))>>
                           \o SubSeq(arg.signature, 1, 64)]
          /\ unstringify_ecdsa_recoverable(ret.string)
                = [raised |-> "", val |-> arg.signature, compressed |-> arg.compressed]
    /\ (op = "unstringify_ecdsa_recoverable"
        /\ b64decode(arg.string).raised = ""
        /\ Len(b64decode(arg.string).val) = 65
        /\ b64decode(arg.string).val[1].b \notin 27..34) =>
          /\ raised = InvalidPrefix
          /\ ret = <<>>

\* a signature with recovery id 3 of a compressed key has got the prefix 34:
\* the first character is 34 \div 4 and the string has 88 characters
C22_Witness ==
    /\ op = "stringify_ecdsa_recoverable"
    /\ arg.compressed
    /\ ValidRecoverable(arg.signature)
    /\ arg.signature[65] = Lit(3)
    /\ raised = ""
    /\ Len(ret.string) = 88
    /\ ret.string[1] = 8
    /\ ret.string[88] = B64_PAD

\* a string with the prefix 35 has been refused
C22_WitnessInvalidPrefix ==
    /\ op = "unstringify_ecdsa_recoverable"
    /\ arg.string \in { b64encode(<<Lit(35)>> \o body) : body \in RecoverableBodies }
    /\ raised = InvalidPrefix

-----------------------------------------------------------------------------
(* The ARC broadcaster (src/bsv/broadcasters/arc.py) and the responses of  *)
(* its HTTP clients (src/bsv/http_client.py).                              *)
(* A JSON value is a record that says what it is: [null], [str], [list] or *)
(* [dict]; a dict is a function from its keys to JSON values.              *)

JNull == [null |-> TRUE]

JStr(string) == [str |-> string]

JList(items) == [list |-> items]

JDict(items) == [dict |-> items]

is_none(value) == "null" \in DOMAIN value

\* the truth value of a python object: None, '', [] and {} are false
truthy(value) ==
    IF is_none(value) THEN FALSE
    ELSE IF "str" \in DOMAIN value THEN value.str # ""
    ELSE IF "list" \in DOMAIN value THEN value.list # <<>>
    ELSE DOMAIN value.dict # {}

\* dict.get(key, default)
dict_get(items, key, default) == IF key \in DOMAIN items THEN items[key] ELSE default

\* f"{value}" of None or of a str
format(value) == IF is_none(value) THEN "None" ELSE value.str

DecimalDigits == <<"0", "1", "2", "3", "4", "5", "6", "7", "8", "9">>

\* str(n) of an int n >= 0
RECURSIVE str(_)
str(n) ==
    IF n < 10 THEN DecimalDigits[n + 1]
    ELSE str(n \div 10) \o DecimalDigits[(n % 10) + 1]

RECURSIVE lstrip(_)
lstrip(string) ==
    IF Len(string) > 0 /\ SubSeq(string, 1, 1) = " "
    THEN lstrip(SubSeq(string, 2, Len(string)))
    ELSE string

RECURSIVE rstrip(_)
rstrip(string) ==
    IF Len(string) > 0 /\ SubSeq(string, Len(string), Len(string)) = " "
    THEN rstrip(SubSeq(string, 1, Len(string) - 1))
    ELSE string

\* str.strip() of a string whose only whitespace is the blank
strip(string) == rstrip(lstrip(string))

HttpResponse(ok, status_code, json_data) ==
    [ok |-> ok, status_code |-> status_code, json_data |-> json_data]

BroadcastResponse(txid, message) ==
    [status |-> "success", txid |-> txid, message |-> message]

BroadcastFailure(code, description) ==
    [status |-> "failure", code |-> code, description |-> description]

\* What a call of a client comes to: [response |-> HttpResponse] when it
\* returns, [raise |-> message] when it raises an Exception with str(error)
\* = message.
Returns(response) == [response |-> response]

Raises(message) == [raise |-> message]

\* SyncHttpClient has fetch and get and no post: the call of
\* self.sync_http_client.post on the default client raises AttributeError
SyncHttpClient_post == Raises("'SyncHttpClient' object has no attribute 'post'")

\* the outcome of self.sync_http_client.post(...): of the default client, or
\* of the client given in the ARCConfig
sync_http_client_post(sync_http_client, outcome) ==
    IF sync_http_client = "SyncHttpClient" THEN SyncHttpClient_post ELSE outcome

KeyErrorOf(key) == "'" \o key \o "'"

NoneHasNoGet == "'NoneType' object has no attribute 'get'"

NoneNotSubscriptable == "'NoneType' object is not subscriptable"

\* the BroadcastFailure of the except branch
InternalFailure(message) == BroadcastFailure(JStr("500"), JStr(message))

\* ARC.broadcast, from self.http_client.fetch on: what it returns for the
\* outcome of the fetch. Everything from the fetch on is inside the try.
ARC_broadcast(outcome) ==
    IF "raise" \in DOMAIN outcome THEN InternalFailure(outcome.raise)
    ELSE Eval(outcome.response, LAMBDA response :
         Eval(response.json_data, LAMBDA response_json :
            IF response.ok /\ response.status_code >= 200 /\ response.status_code <= 299
            THEN IF "data" \notin DOMAIN response_json THEN InternalFailure(KeyErrorOf("data"))
                 ELSE IF is_none(response_json["data"]) THEN InternalFailure(NoneHasNoGet)
                 ELSE Eval(response_json["data"].dict, LAMBDA data :
                      IF truthy(dict_get(data, "txid", JNull))
                      THEN BroadcastResponse(
                               dict_get(data, "txid", JNull),
                               format(dict_get(data, "txStatus", JStr(""))) \o " "
                               \o format(dict_get(data, "extraInfo", JStr(""))))
                      ELSE BroadcastFailure(dict_get(data, "status", JStr("ERR_UNKNOWN")),
                                            dict_get(data, "detail", JStr("Unknown error"))))
            ELSE IF "data" \notin DOMAIN response_json
                 THEN BroadcastFailure(JStr(str(response.status_code)), JStr("Unknown error"))
                 ELSE IF is_none(response_json["data"])
                 THEN InternalFailure(NoneNotSubscriptable)
                 ELSE IF "detail" \notin DOMAIN response_json["data"].dict
                 THEN InternalFailure(KeyErrorOf("detail"))
                 ELSE BroadcastFailure(JStr(str(response.status_code)),
                                       response_json["data"].dict["detail"])))

TimedOut(timeout) == "Transaction broadcast timed out after " \o str(timeout) \o " seconds"

\* ARC.sync_broadcast, from self.sync_http_client.post on: what it returns
\* for the outcome of the post
ARC_sync_broadcast(outcome, timeout) ==
    IF "raise" \in DOMAIN outcome THEN InternalFailure(outcome.raise)
    ELSE Eval(outcome.response, LAMBDA response :
         Eval(dict_get(response.json_data, "data", JDict(<<>>)), LAMBDA data :
            IF response.ok
            THEN IF is_none(data) THEN InternalFailure(NoneHasNoGet)
                 ELSE IF truthy(dict_get(data.dict, "txid", JNull))
                 THEN BroadcastResponse(
                          dict_get(data.dict, "txid", JNull),
                          strip(format(dict_get(data.dict, "txStatus", JStr(""))) \o " "
                                \o format(dict_get(data.dict, "extraInfo", JStr("")))))
                 ELSE BroadcastFailure(dict_get(data.dict, "status", JStr("ERR_UNKNOWN")),
                                       dict_get(data.dict, "detail", JStr("Unknown error")))
            ELSE IF response.status_code = 408
                 THEN BroadcastFailure(JStr("408"), JStr(TimedOut(timeout)))
                 ELSE IF response.status_code = 503
                 THEN BroadcastFailure(JStr("503"), JStr("Failed to connect to ARC service"))
                 ELSE IF is_none(data) THEN InternalFailure(NoneHasNoGet)
                 ELSE BroadcastFailure(JStr(str(response.status_code)),
                                       dict_get(data.dict, "detail", JStr("Unknown error")))))

Progressing ==
    { "UNKNOWN", "QUEUED", "RECEIVED", "STORED", "ANNOUNCED_TO_NETWORK",
      "REQUESTED_BY_NETWORK", "SENT_TO_NETWORK", "ACCEPTED_BY_NETWORK" }

Rejected == { "ERROR", "REJECTED", "SEEN_IN_ORPHAN_MEMPOOL" }

\* categorize_transaction_status taking SEEN_ON_NETWORK for 0confirmation
\* whatever competes
ARC_categorize_transaction_status_ignoring_competing(response) ==
    IF is_none(response)
    THEN [status_category |-> "error", error |-> NoneHasNoGet, response |-> response]
    ELSE Eval(dict_get(response.dict, "txStatus", JNull), LAMBDA tx_status :
         IF ~truthy(tx_status)
         THEN [status_category |-> "error", tx_status |-> JStr("No txStatus")]
         ELSE [status_category |->
                  IF tx_status.str \in Progressing THEN "progressing"
                  ELSE IF tx_status.str = "MINED" THEN "mined"
                  ELSE IF tx_status.str = "MINED_IN_STALE_BLOCK" THEN "0confirmation"
                  ELSE IF tx_status.str = "DOUBLE_SPEND_ATTEMPTED" THEN "warning"
                  ELSE IF tx_status.str = "SEEN_ON_NETWORK" THEN "0confirmation"
                  ELSE IF tx_status.str \in Rejected THEN "rejected"
                  ELSE "unknown_txStatus: " \o format(tx_status),
               tx_status |-> tx_status])

\* ARC.categorize_transaction_status(response); a txStatus here is None or a
\* str
ARC_categorize_transaction_status(response) ==
    IF is_none(response)
    THEN [status_category |-> "error", error |-> NoneHasNoGet, response |-> response]
    ELSE Eval(dict_get(response.dict, "txStatus", JNull), LAMBDA tx_status :
         IF ~truthy(tx_status)
         THEN [status_category |-> "error", tx_status |-> JStr("No txStatus")]
         ELSE [status_category |->
                  IF tx_status.str \in Progressing THEN "progressing"
                  ELSE IF tx_status.str = "MINED" THEN "mined"
                  ELSE IF tx_status.str = "MINED_IN_STALE_BLOCK" THEN "0confirmation"
                  ELSE IF tx_status.str = "DOUBLE_SPEND_ATTEMPTED" THEN "warning"
                  ELSE IF tx_status.str = "SEEN_ON_NETWORK"
                  THEN IF truthy(dict_get(response.dict, "competingTxs", JNull))
                       THEN "warning"
                       ELSE "0confirmation"
                  ELSE IF tx_status.str \in Rejected THEN "rejected"
                  ELSE "unknown_txStatus: " \o format(tx_status),
               tx_status |-> tx_status])

-----------------------------------------------------------------------------
(* The broadcaster on one outcome of its client, and the categorization of *)
(* one status record, both drawn in Init.                                  *)

TxidValues == { JNull, JStr(""), JStr("8e60c414") }

OtherDataValues ==
    [txStatus |-> JStr("SEEN_ON_NETWORK"), extraInfo |-> JStr("extra"),
     status |-> JStr("ERR_BAD_REQUEST"), detail |-> JStr("Invalid transaction")]

\* the dicts under "data": every choice of the keys the broadcaster reads
DataDicts ==
    UNION { { [key \in keys |-> OtherDataValues[key]] }
            \cup { [key \in keys \cup {"txid"} |->
                      IF key = "txid" THEN txid ELSE OtherDataValues[key]] :
                   txid \in TxidValues } :
            keys \in SUBSET {"txStatus", "extraInfo", "status", "detail"} }

\* response.json(): no "data" (an empty body, or the record of
\* SyncHttpClient._handle_error), "data": null, or "data": a dict
JsonBodies ==
    { <<>>,
      [error |-> JStr("timed out"), error_type |-> JStr("Timeout")],
      [data |-> JNull] }
    \cup { [data |-> JDict(data)] : data \in DataDicts }

\* ok and status_code as a client sets them: requests takes every status
\* below 400 for ok (SyncHttpClient._make_response), DefaultHttpClient only
\* 200..299, and a failed request or an unreadable body is not ok
OkStatusCodes == { 200, 299, 302 }

NotOkStatusCodes == { 0, 200, 302, 400, 408, 503 }

Outcomes ==
    { Raises("Internal Error") }
    \cup { Returns(HttpResponse(TRUE, status_code, json_data)) :
             status_code \in OkStatusCodes, json_data \in JsonBodies }
    \cup { Returns(HttpResponse(FALSE, status_code, json_data)) :
             status_code \in NotOkStatusCodes, json_data \in JsonBodies }

Timeouts == { 5, 30 }

TxStatusValues ==
    { JNull, JStr(""), JStr("PENDING"), JStr("MINED"), JStr("MINED_IN_STALE_BLOCK"),
      JStr("DOUBLE_SPEND_ATTEMPTED"), JStr("SEEN_ON_NETWORK") }
    \cup { JStr(name) : name \in Progressing \cup Rejected }

CompetingTxsValues == { JNull, JList(<<>>), JList(<<JStr("x")>>) }

StatusRecords ==
    { JNull }
    \cup { JDict(<<>>) }
    \cup { JDict([txStatus |-> tx_status]) : tx_status \in TxStatusValues }
    \cup { JDict([competingTxs |-> competing]) : competing \in CompetingTxsValues }
    \cup { JDict([txStatus |-> tx_status, competingTxs |-> competing]) :
             tx_status \in TxStatusValues, competing \in CompetingTxsValues }

InitArc ==
    /\ tx = Transaction(<<>>, <<>>, VERSION, LOCKTIME, FEE_RATE)
    /\ op = "init"
    /\ \/ \E outcome \in Outcomes, timeout \in Timeouts :
             arg = [outcome |-> outcome, timeout |-> timeout, sync_http_client |-> "given"]
       \/ \E timeout \in Timeouts :
             arg = [outcome |-> Raises("Internal Error"), timeout |-> timeout,
                    sync_http_client |-> "SyncHttpClient"]
       \/ \E response \in StatusRecords : arg = [response |-> response]
    /\ ret = <<>>
    /\ raised = ""
    /\ budget = 0
    /\ opaque_estimate = "zero"

\* await arc.broadcast(tx): arg.outcome is what self.http_client.fetch comes to
ArcBroadcast ==
    /\ op = "init"
    /\ "outcome" \in DOMAIN arg
    /\ op' = "broadcast"
    /\ ret' = [broadcast |-> ARC_broadcast(arg.outcome)]
    /\ raised' = ""
    /\ UNCHANGED <<tx, arg, budget, opaque_estimate>>

\* arc.sync_broadcast(tx, timeout)
ArcSyncBroadcast ==
    /\ op = "init"
    /\ "outcome" \in DOMAIN arg
    /\ op' = "sync_broadcast"
    /\ ret' = [sync_broadcast |->
                  ARC_sync_broadcast(sync_http_client_post(arg.sync_http_client, arg.outcome),
                                     arg.timeout)]
    /\ raised' = ""
    /\ UNCHANGED <<tx, arg, budget, opaque_estimate>>

CategorizeTransactionStatus ==
    /\ op = "init"
    /\ "response" \in DOMAIN arg
    /\ op' = "categorize_transaction_status"
    /\ ret' = [categorized |-> ARC_categorize_transaction_status(arg.response)]
    /\ raised' = ""
    /\ UNCHANGED <<tx, arg, budget, opaque_estimate>>

NextArc ==
    \/ ArcBroadcast
    \/ ArcSyncBroadcast
    \/ CategorizeTransactionStatus

SpecArc == InitArc /\ [][NextArc]_vars

\* the category the table of the status categorization gives a txStatus
\* name, competing saying whether competingTxs is there and not empty
CategoryOf(name, competing) ==
    CASE name \in { "UNKNOWN", "QUEUED", "RECEIVED", "STORED", "ANNOUNCED_TO_NETWORK",
                    "REQUESTED_BY_NETWORK", "SENT_TO_NETWORK", "ACCEPTED_BY_NETWORK" }
            -> "progressing"
      [] name = "MINED" -> "mined"
      [] name = "MINED_IN_STALE_BLOCK" -> "0confirmation"
      [] name = "DOUBLE_SPEND_ATTEMPTED" -> "warning"
      [] name = "SEEN_ON_NETWORK" -> IF competing THEN "warning" ELSE "0confirmation"
      [] name \in { "ERROR", "REJECTED", "SEEN_IN_ORPHAN_MEMPOOL" } -> "rejected"
      [] OTHER -> "unknown_txStatus: " \o name

\* competingTxs of a status record is a list with an element
HasCompeting(record) ==
    /\ "competingTxs" \in DOMAIN record
    /\ "list" \in DOMAIN record.competingTxs
    /\ Len(record.competingTxs.list) > 0

\* txStatus of a status record is a str
HasTxStatus(record) ==
    "txStatus" \in DOMAIN record /\ "str" \in DOMAIN record.txStatus

\* C23: categorize_transaction_status gives every status record exactly one
\* category: the one of the table for its txStatus, with SEEN_ON_NETWORK a
\* warning when competingTxs is not empty and 0confirmation otherwise, every
\* other value v unknown_txStatus: v, and error when txStatus is missing.
C23_CategoryTable ==
    (op = "categorize_transaction_status" /\ "dict" \in DOMAIN arg.response) =>
        ret.categorized.status_category =
            IF HasTxStatus(arg.response.dict)
            THEN CategoryOf(arg.response.dict.txStatus.str, HasCompeting(arg.response.dict))
            ELSE "error"

\* C23 (amended): the same, with error for a txStatus that is missing, null
\* or the empty string, and with a category also for a response that is no
\* record at all.
C23_CategoryTableOfNonEmpty ==
    (op = "categorize_transaction_status") =>
        ret.categorized.status_category =
            IF /\ "dict" \in DOMAIN arg.response
               /\ HasTxStatus(arg.response.dict)
               /\ arg.response.dict.txStatus.str # ""
            THEN CategoryOf(arg.response.dict.txStatus.str, HasCompeting(arg.response.dict))
            ELSE "error"

\* SEEN_ON_NETWORK with a competing transaction has been made a warning
C23_Witness ==
    /\ op = "categorize_transaction_status"
    /\ arg.response = JDict([txStatus |-> JStr("SEEN_ON_NETWORK"),
                             competingTxs |-> JList(<<JStr("x")>>)])
    /\ ret.categorized = [status_category |-> "warning",
                          tx_status |-> JStr("SEEN_ON_NETWORK")]

\* a name outside the table has got its own category
C23_WitnessUnknown ==
    /\ op = "categorize_transaction_status"
    /\ arg.response = JDict([txStatus |-> JStr("PENDING")])
    /\ ret.categorized.status_category = "unknown_txStatus: PENDING"

\* the two results are of the same kind, and two failures have the same code
\* and the same description
SameResult(one, other) ==
    /\ one.status = other.status
    /\ one.status = "failure" => /\ one.code = other.code
                                 /\ one.description = other.description

\* C24: for every outcome of the HTTP client given to both, the blocking
\* sync_broadcast and the non-blocking broadcast return the same result: the
\* same kind, and for failures the same code and description.
C24_SyncAndAsyncAgree ==
    /\ (op = "sync_broadcast" /\ arg.sync_http_client = "given") =>
          SameResult(ret.sync_broadcast, ARC_broadcast(arg.outcome))
    /\ (op = "broadcast") =>
          SameResult(ret.broadcast, ARC_sync_broadcast(arg.outcome, arg.timeout))

\* a response as the clients of the repository and the tests make it: ok
\* exactly for 200..299, and a dict with detail under "data"
PlainResponse(outcome) ==
    /\ "response" \in DOMAIN outcome
    /\ outcome.response.ok = (outcome.response.status_code \in 200..299)
    /\ "data" \in DOMAIN outcome.response.json_data
    /\ "dict" \in DOMAIN outcome.response.json_data.data
    /\ "detail" \in DOMAIN outcome.response.json_data.data.dict

\* the part of C24 that holds: on an exception of the client, and on a plain
\* response with a status other than 408 and 503, the two agree
C24_AgreeApartFromTransport ==
    (/\ op = "sync_broadcast"
     /\ arg.sync_http_client = "given"
     /\ \/ "raise" \in DOMAIN arg.outcome
        \/ /\ PlainResponse(arg.outcome)
           /\ arg.outcome.response.status_code \notin {408, 503}) =>
        SameResult(ret.sync_broadcast, ARC_broadcast(arg.outcome))

\* the dict under "data" of a response, the empty dict when there is none
DataOf(response) ==
    IF "data" \in DOMAIN response.json_data THEN response.json_data.data.dict ELSE <<>>

\* the post returned a response whose "data" is not null
Answered(outcome) ==
    /\ "response" \in DOMAIN outcome
    /\ "data" \in DOMAIN outcome.response.json_data =>
          "dict" \in DOMAIN outcome.response.json_data.data

\* the description has the timeout in it
MentionsTimeout(description, timeout) ==
    \E k \in 1..Len(description.str) :
        SubSeq(description.str, k, k + Len(str(timeout)) - 1) = str(timeout)

\* C25: sync_broadcast gives, for a response of status 408, the failure code
\* "408" with the timeout of the call in the description; for 503, code
\* "503" and "Failed to connect to ARC service"; for any other response
\* outside 200..299, the status code as a string and the detail of the
\* response, "Unknown error" when it has none; and for an exception raised
\* during the call, code "500" and the message of the exception.
C25_SyncFailureCodes ==
    (op = "sync_broadcast") =>
        LET outcome == sync_http_client_post(arg.sync_http_client, arg.outcome)
            result == ret.sync_broadcast
        IN  /\ "raise" \in DOMAIN outcome =>
                  result = BroadcastFailure(JStr("500"), JStr(outcome.raise))
            /\ (Answered(outcome) /\ outcome.response.status_code = 408) =>
                  /\ result.status = "failure"
                  /\ result.code = JStr("408")
                  /\ MentionsTimeout(result.description, arg.timeout)
            /\ (Answered(outcome) /\ outcome.response.status_code = 503) =>
                  result = BroadcastFailure(JStr("503"),
                                            JStr("Failed to connect to ARC service"))
            /\ (/\ Answered(outcome)
                /\ outcome.response.status_code \notin {408, 503}
                /\ outcome.response.status_code \notin 200..299) =>
                  /\ result.status = "failure"
                  /\ result.code = JStr(str(outcome.response.status_code))
                  /\ result.description =
                        IF "detail" \in DOMAIN DataOf(outcome.response)
                        THEN DataOf(outcome.response).detail
                        ELSE JStr("Unknown error")

\* the part of C25 that holds: the same for every response that the client
\* does not call ok
C25_SyncFailureCodesOfNotOk ==
    (op = "sync_broadcast") =>
        LET outcome == sync_http_client_post(arg.sync_http_client, arg.outcome)
            result == ret.sync_broadcast
        IN  /\ "raise" \in DOMAIN outcome =>
                  result = BroadcastFailure(JStr("500"), JStr(outcome.raise))
            /\ (Answered(outcome) /\ ~outcome.response.ok) =>
                  /\ result.status = "failure"
                  /\ result.code = JStr(str(outcome.response.status_code))
                  /\ result.description =
                        IF outcome.response.status_code = 408
                        THEN JStr(TimedOut(arg.timeout))
                        ELSE IF outcome.response.status_code = 503
                        THEN JStr("Failed to connect to ARC service")
                        ELSE IF "detail" \in DOMAIN DataOf(outcome.response)
                        THEN DataOf(outcome.response).detail
                        ELSE JStr("Unknown error")

\* the response is ok, of a status in 200..299, and has a txid that is not
\* empty in its data
Accepted(outcome) ==
    /\ "response" \in DOMAIN outcome
    /\ outcome.response.ok
    /\ outcome.response.status_code \in 200..299
    /\ "data" \in DOMAIN outcome.response.json_data
    /\ "dict" \in DOMAIN outcome.response.json_data.data
    /\ "txid" \in DOMAIN outcome.response.json_data.data.dict
    /\ "str" \in DOMAIN outcome.response.json_data.data.dict.txid
    /\ outcome.response.json_data.data.dict.txid.str # ""

\* "<txStatus> <extraInfo>" of the data, a missing one being empty; blanks
\* at the ends do not count
StatusMessage(data) ==
    strip((IF "txStatus" \in DOMAIN data THEN data.txStatus.str ELSE "") \o " "
          \o (IF "extraInfo" \in DOMAIN data THEN data.extraInfo.str ELSE ""))

\* what C26 says of one result for one outcome
ResponseIffAccepted(result, outcome) ==
    IF Accepted(outcome)
    THEN /\ result.status = "success"
         /\ result.txid = outcome.response.json_data.data.dict.txid
         /\ strip(result.message) = StatusMessage(outcome.response.json_data.data.dict)
    ELSE result.status = "failure"

\* C26: broadcast and sync_broadcast return a BroadcastResponse exactly when
\* the response is ok (2xx) and its data has a txid that is not empty, with
\* that txid and the message "<txStatus> <extraInfo>"; for every other
\* outcome of the client (a 2xx response without txid, a response outside
\* 2xx, an exception) they return a BroadcastFailure.
C26_ResponseIffOkWithTxid ==
    /\ (op = "broadcast") => ResponseIffAccepted(ret.broadcast, arg.outcome)
    /\ (op = "sync_broadcast") =>
          ResponseIffAccepted(ret.sync_broadcast,
                              sync_http_client_post(arg.sync_http_client, arg.outcome))

\* the part of C26 that holds: broadcast does so, and sync_broadcast does so
\* with "ok" for "ok and 2xx"
C26_ResponseIffOkFlagWithTxid ==
    /\ (op = "broadcast") => ResponseIffAccepted(ret.broadcast, arg.outcome)
    /\ (op = "sync_broadcast") =>
          LET outcome == sync_http_client_post(arg.sync_http_client, arg.outcome)
          IN  IF "response" \in DOMAIN outcome /\ outcome.response.status_code \notin 200..299
              THEN ret.sync_broadcast.status = "success" <=>
                      Accepted([outcome EXCEPT !.response.status_code = 200])
              ELSE ResponseIffAccepted(ret.sync_broadcast, outcome)

(***************************************************************************)
(* Signing at the end of a sequence of add_input, add_output, add_change   *)
(* and sign calls (Spec).                                                  *)
(***************************************************************************)

\* input k (from 1) of t has private keys attached
HasKeys(t, k) == t.inputs[k].private_keys # <<>>

\* C27 as stated: whenever sign() under the default policy (bypass=True)
\* returns, every input that has private keys attached carries the unlocking
\* script built from signatures over its digest of the transaction as it is
\* then, so no input keeps a signature made over an earlier state.
C27_NoStaleSignature ==
    [][ (op' = "sign" /\ arg' = <<TRUE>> /\ raised' = "") =>
            \A k \in 1..Len(tx'.inputs) :
                HasKeys(tx', k) => tx'.inputs[k].unlocking_script = FreshUnlocking(tx', k) ]_vars

\* C27, amended: whenever sign() returns, every input that has private keys
\* attached carries an unlocking script; under the default policy the script
\* of an input that had none before the call is built from signatures over
\* its digest of the transaction as it is then, and an input that already
\* had one keeps it as it was; under bypass=False every such input carries
\* the script over the transaction as it is then.
C27_SignFillsUnsignedInputs ==
    [][ (op' = "sign" /\ raised' = "") =>
            /\ Len(tx'.inputs) = Len(tx.inputs)
            /\ \A k \in 1..Len(tx.inputs) :
                  HasKeys(tx', k) =>
                     /\ ~tx'.inputs[k].unlocking_script.none
                     /\ (tx.inputs[k].unlocking_script.none \/ arg' = <<FALSE>>) =>
                            tx'.inputs[k].unlocking_script = FreshUnlocking(tx', k)
                     /\ (~tx.inputs[k].unlocking_script.none /\ arg' = <<TRUE>>) =>
                            tx'.inputs[k].unlocking_script = tx.inputs[k].unlocking_script ]_vars

\* sign() under the default policy has returned on a transaction with a
\* change output: the input signed before the change was added still carries
\* the signature over the transaction without it, the input added since is
\* signed over the transaction as it is
C27_Witness ==
    /\ op = "sign"
    /\ arg = <<TRUE>>
    /\ raised = ""
    /\ Len(tx.outputs) >= 1
    /\ \E k \in 1..Len(tx.inputs) :
          /\ HasKeys(tx, k)
          /\ ~tx.inputs[k].unlocking_script.none
          /\ tx.inputs[k].unlocking_script # FreshUnlocking(tx, k)
          /\ tx.inputs[k].unlocking_script =
                FreshUnlocking([tx EXCEPT !.outputs = SubSeq(@, 1, Len(@) - 1)], k)
    /\ \E k \in 1..Len(tx.inputs) :
          /\ HasKeys(tx, k)
          /\ tx.inputs[k].unlocking_script = FreshUnlocking(tx, k)

\* sign(bypass=False) has returned and replaced a signature made over an
\* earlier state: every input with keys is signed over the transaction as it is
C27_WitnessForced ==
    /\ op = "sign"
    /\ arg = <<FALSE>>
    /\ raised = ""
    /\ Len(tx.inputs) = 2
    /\ Len(tx.outputs) >= 1
    /\ \A k \in 1..2 : HasKeys(tx, k) /\ tx.inputs[k].unlocking_script = FreshUnlocking(tx, k)

(***************************************************************************)
(* The bytes of a transaction read back and written again (SpecParse).     *)
(***************************************************************************)

\* C28: for every transaction T, signed or unsigned,
\* Transaction.from_hex(T.serialize()) is a transaction whose serialize()
\* returns the octets of T.serialize() and whose txid is that of T, although
\* the value, locking script, keys and sighash of T's inputs are not in them.
C28_SerializeFromHexSerialize ==
    (op = "from_hex") =>
        /\ ~ret.none
        /\ Transaction_serialize(ret.tx) = Transaction_serialize(tx)
        /\ Transaction_txid(ret.tx) = Transaction_txid(tx)

\* a transaction of an unsigned input with a key and an input with an
\* unlocking script has been read back: the first input has lost its value,
\* keys and locking script, the second its sighash, and the bytes are the same
C28_Witness ==
    /\ op = "from_hex"
    /\ ~ret.none
    /\ Len(tx.inputs) = 2
    /\ Len(tx.outputs) >= 1
    /\ tx.inputs[1].unlocking_script.none
    /\ tx.inputs[1].private_keys # <<>>
    /\ tx.inputs[2].unlocking_script = PresetUnlocking
    /\ ret.tx.inputs[1].value # tx.inputs[1].value
    /\ ret.tx.inputs[1].private_keys = <<>>
    /\ ret.tx.inputs[1].locking_script # tx.inputs[1].locking_script
    /\ ret.tx.inputs[2].sighash # tx.inputs[2].sighash
    /\ ret.tx # tx
    /\ Transaction_serialize(ret.tx) = arg[1]

(***************************************************************************)
(* add_change called twice in a row (Spec).                                *)
(***************************************************************************)

\* C29: for every fee_rate >= 0, an add_change that follows at once, with the
\* same argument, an add_change that returned without error returns without
\* error and appends no output: it leaves the transaction as it was.
C29_AddChangeIdempotent ==
    [][ (op = "add_change" /\ raised = "" /\ op' = "add_change" /\ arg' = arg) =>
            /\ raised' = ""
            /\ tx' = tx ]_vars

\* add_change has appended a change output with a value above zero at a
\* fee rate above zero, and the call that follows appends nothing
C29_Witness ==
    /\ op = "add_change"
    /\ raised = ""
    /\ tx.fee_rate.num > 0
    /\ Len(tx.outputs) = 2
    /\ tx.outputs[2].value > 0
    /\ tx.outputs[2].value \notin { o.value : o \in NewOutputs }
    /\ fee(tx) = ceil_rate(tx.fee_rate, estimated_byte_length(tx))
    /\ ~estimated_byte_length_raises(tx)
    /\ ~add_change_appends(tx)

\* the same at fee rate zero: the change took the whole surplus
C29_WitnessZeroRate ==
    /\ op = "add_change"
    /\ raised = ""
    /\ tx.fee_rate.num = 0
    /\ Len(tx.outputs) >= 1
    /\ tx.outputs[Len(tx.outputs)].value \notin { o.value : o \in NewOutputs }
    /\ fee(tx) = 0
    /\ ~estimated_byte_length_raises(tx)
    /\ ~add_change_appends(tx)

(***************************************************************************)
(* What deserialize_ecdsa_der accepts (SpecCodec).                         *)
(***************************************************************************)

\* the r and s INTEGER fields of signature exactly fill the body: the total
\* length is 6 + r_len + s_len, with s_len at least 1
DerExactFill(signature) ==
    /\ Len(signature) >= 6
    /\ Len(signature) >= 6 + signature[4].b
    /\ signature[4 + signature[4].b + 2].b >= 1
    /\ Len(signature) = 6 + signature[4].b + signature[4 + signature[4].b + 2].b

\* C30: deserialize_ecdsa_der returns an (r, s) only for an input whose r and
\* s fields exactly fill the body; an input whose declared r_len or s_len
\* does not agree with the octets that remain, s_len = 0 included, is refused
\* with the invalid-encoding error.
C30_DerAcceptsOnlyExactFill ==
    (op = "deserialize_ecdsa_der" /\ ~DerExactFill(arg.der)) =>
        raised = "ValueError" /\ ret = <<>>

\* an input whose s field declares no octets has been decoded
C30_DecodedWithEmptyS ==
    /\ op = "deserialize_ecdsa_der"
    /\ raised = ""
    /\ Len(arg.der) >= 6 + arg.der[4].b
    /\ arg.der[4 + arg.der[4].b + 2].b = 0

====
